---------------------------- MODULE Spec2Model ----------------------------
(***************************************************************************)
(* A model of the three-thread audio pipeline of viam-labs/speech          *)
(* (src/src/speech/sr_pipeline/pipeline.py): the capture thread, the       *)
(* VAD/segmentation thread, the transcription thread, the two bounded      *)
(* queues between them and the caller's start()/stop().                    *)
(*                                                                         *)
(* Time is counted in milliseconds: the source's constants are seconds     *)
(* (0.8, 0.3, 30.0) and time.monotonic() a float; every comparison the     *)
(* code makes on them is a comparison of differences of timestamps with a  *)
(* constant, which the millisecond integers keep.                          *)
(*                                                                         *)
(* An AudioChunk is [timestamp, energy]: energy stands for the chunk's     *)
(* data (the RMS EnergyVAD computes from it); sample_rate and sample_width *)
(* are the same for every chunk of one source and are left out.  An        *)
(* Utterance is [chunks, start_time, end_time]: chunks stands for audio,   *)
(* the concatenation of the chunks' data.                                  *)
(***************************************************************************)
EXTENDS Integers, Sequences, FiniteSets, TLC

\* ------------------------------------------------------------- constants

\* pipeline.py:23-26, in milliseconds
SILENCE_TIMEOUT == 800
SPEECH_PADDING == 300
MAX_SPEECH_DURATION == 30000
FRAME_DURATION_MS == 30

\* energy_vad.py:16 (EnergyVAD's default static threshold) and :46
VAD_THRESHOLD == 300
CALIBRATION_CHUNKS == 50

\* --------------------------------------------------------------- bounds

\* Capacity of _capture_queue (CAPTURE_QUEUE_SIZE, 100 in the source) and of
\* _utterance_queue (UTTERANCE_QUEUE_SIZE, 10 in the source), scaled down.
CaptureQueueCap == 1
UtteranceQueueCap == 2
\* Calls of s.stream.read() that raise in one run of the concurrent model.
MaxReadErrors == 1

\* The energy of a quiet and of a loud frame.
QUIET == 0
LOUD == 1000

\* What one device read may return, as <<milliseconds since the last frame's
\* timestamp, energy>>: a quiet (Fq) or a loud (Fl) frame one frame later, or
\* a quiet frame after the device stalled for the silence timeout (Fs).
Fq == <<FRAME_DURATION_MS, QUIET>>
Fl == <<FRAME_DURATION_MS, LOUD>>
Fs == <<SILENCE_TIMEOUT, QUIET>>

\* The audio the device delivers in one run of the concurrent model, frame by
\* frame: three short utterances; two quiet frames and an utterance of several
\* frames; a loud start, which calibrates the VAD on speech; stalls before and
\* between loud frames.
DeviceStreams ==
    { <<Fq, Fl, Fs, Fl, Fs, Fl, Fs>>,
      <<Fq, Fq, Fl, Fl, Fq, Fs>>,
      <<Fl, Fl, Fq, Fl, Fs>>,
      <<Fs, Fl, Fs, Fs, Fl>> }

\* --------------------------------------------------------------- state

VARIABLES
    running,        \* self._running
    stopEvent,      \* self._stop_event
    captureQ,       \* self._capture_queue
    utteranceQ,     \* self._utterance_queue
    metrics,        \* self.metrics
    vad,            \* self.vad: [ambient, calibrated, samples_seen]
    onUtterance,    \* whether an on_utterance handler was given
    onTranscript,   \* whether an on_transcript callback was given
    callerPc,       \* where the caller of start()/stop() is
    lifecycle,      \* history: how the last call of start() or stop() ended
    capPc,          \* where the capture thread is
    capChunk,       \* _capture_loop's local chunk
    clock,          \* time.monotonic() at the last read
    capError,       \* what the last call of s.stream.read() raised, if anything
    detPc,          \* where the detect thread is
    seg,            \* _detect_loop's locals
    detUtt,         \* _emit_utterance's local utterance
    trPc,           \* where the transcribe thread is
    trUtt,          \* _transcribe_loop's local utterance
    trOutcome,      \* how the call in progress ended, until the loop handled it
    readCalls,      \* history: calls of s.stream.read()
    framesRead,     \* history: frames s.stream.read() returned
    onErrorCalls,   \* history: calls of on_error, per calling thread
    dropWarnings,   \* history: "Utterance queue full" warnings logged
    emitLog,        \* history: utterances _emit_utterance built, in order
    recognizeLog,   \* history: utterances passed to recognize_google
    handlerLog,     \* history: utterances passed to on_utterance
    transcriptLog,  \* history: utterances on_transcript was called with
    device,         \* the frames the audio device delivers, in order
    stream,         \* the segmenter's input stream (segmenter specification)
    pos,            \* chunks of the stream consumed so far
    rapidfuzz,      \* RAPIDFUZZ_AVAILABLE: whether rapidfuzz could be imported
    attrs,          \* the attributes of the last config given to reconfigure
    service,        \* the SpeechIOService's fuzzy matching fields
    fuzzy_matcher,  \* self.fuzzy_matcher: None or a FuzzyWakeWordMatcher
    constructed,    \* history: the threshold the last matcher was made with
    reconfigLog,    \* history: what the last reconfigure logged, in order
    matchInput,     \* history: the arguments of the last match_trigger call
    matchResult,    \* history: what the last match_trigger call returned
    should_listen,       \* self.should_listen: continuous listening
    listen_trigger_all,  \* self.listen_trigger_all
    listen_command_buffer_length,
    command_list,        \* self.command_list, newest first
    trigger_active,      \* self.trigger_active: a one-shot arm is set
    active_trigger_type, \* self.active_trigger_type
    listenerPc,     \* the listener thread: "idle", or "truncate" after an
                    \* insert into command_list and before its del
    getPc,          \* get_commands: "idle", or "del" after its slice
    number,         \* get_commands' argument
    to_return,      \* get_commands' local
    inserted,       \* history: how many commands were ever inserted
    fired,          \* history: what the last transcript callback since
                    \* the last reconfigure did; its tick turns with every
                    \* callback
    returned,       \* history: the commands get_commands returned so far
    lastGet         \* history: what the last get_commands returned and
                    \* removed, and whether the list changed under any call

vars == <<running, stopEvent, captureQ, utteranceQ, metrics, vad, onUtterance,
          onTranscript, callerPc, lifecycle, capPc, capChunk, clock, capError,
          detPc, seg, detUtt,
          trPc, trUtt, trOutcome, readCalls, framesRead, onErrorCalls,
          dropWarnings, emitLog, recognizeLog, handlerLog, transcriptLog,
          device, stream, pos, rapidfuzz, attrs, service, fuzzy_matcher,
          constructed, reconfigLog, matchInput, matchResult,
          should_listen, listen_trigger_all, listen_command_buffer_length,
          command_list, trigger_active, active_trigger_type, listenerPc,
          getPc, number, to_return, inserted, fired, returned, lastGet>>

\* ---------------------------------------------------------- value types

AudioChunk(ts, e) == [timestamp |-> ts, energy |-> e]

Utterance(chunks, start, end) ==
    [chunks |-> chunks, start_time |-> start, end_time |-> end]

\* The None a stop() puts in each queue.
PoisonChunk == AudioChunk(-1, -1)
PoisonUtterance == Utterance(<<>>, -1, -1)
NoChunk == AudioChunk(-2, -2)
NoUtterance == Utterance(<<>>, -2, -2)

PipelineMetrics ==
    [chunks_captured |-> 0, chunks_dropped |-> 0, utterances_detected |-> 0,
     utterances_transcribed |-> 0, transcription_errors |-> 0]

\* ---------------------------------------------------------- queue.Queue

QueueFull(q, maxsize) == Len(q) >= maxsize

\* A put that waits for a free slot, as queue.put does.
PutWaitsForSlot(q, maxsize) == ~QueueFull(q, maxsize)

\* Whether a put_nowait on the queue can be taken: it never waits, it
\* enqueues or raises queue.Full at once.
PutNowaitReady(q, maxsize) == TRUE

\* ------------------------------------------------------------ EnergyVAD

\* EnergyVAD.__init__ with dynamic=True; calibrated is "_ambient_energy is
\* not None".
NewVAD == [ambient |-> 0, calibrated |-> FALSE, samples_seen |-> 0]

Max(a, b) == IF a >= b THEN a ELSE b

\* A process() that never stops calibrating.
VadUpdateForever(v, energy) ==
    [ambient |-> IF v.calibrated THEN (9 * v.ambient + energy) \div 10
                 ELSE energy,
     calibrated |-> TRUE,
     samples_seen |-> v.samples_seen + 1]

\* EnergyVAD.process: the state after the call.  The moving average
\* 0.9 * ambient + 0.1 * energy is kept in whole energy units.
VadUpdate(v, energy) ==
    IF v.samples_seen < CALIBRATION_CHUNKS
    THEN [ambient |-> IF v.calibrated
                      THEN (9 * v.ambient + energy) \div 10
                      ELSE energy,
          calibrated |-> TRUE,
          samples_seen |-> v.samples_seen + 1]
    ELSE v

\* EnergyVAD.process: is_speech.  energy > max(threshold, ambient * 1.5),
\* with the ambient estimate as updated by this call, while calibrating.
VadIsSpeech(v, energy) ==
    IF v.samples_seen < CALIBRATION_CHUNKS
    THEN 2 * energy > Max(2 * VAD_THRESHOLD, 3 * VadUpdate(v, energy).ambient)
    ELSE energy > VAD_THRESHOLD

\* ------------------------------------------------------- the segmenter

\* padding_frames, and the deque's maxlen
PaddingFrames == (SPEECH_PADDING) \div FRAME_DURATION_MS
PaddingMaxLen == Max(1, PaddingFrames)

\* The append of a list, which drops nothing.
ListAppend(d, x, maxlen) == Append(d, x)

\* collections.deque(maxlen=n).append
DequeAppend(d, x, maxlen) ==
    IF Len(d) >= maxlen THEN Append(Tail(d), x) ELSE Append(d, x)

\* _detect_loop's locals before the loop
NewSegmenter ==
    [state |-> "idle", padding_buffer |-> <<>>, utterance_chunks |-> <<>>,
     speech_start_time |-> -1, last_speech_time |-> -1]

\* An FSM step that dates the start of speech from the oldest padding chunk.
SegAccumulateStartAtPadding(s, chunk, is_speech) ==
    IF s.state = "idle"
    THEN LET pb == DequeAppend(s.padding_buffer, chunk, PaddingMaxLen)
         IN  IF is_speech
             THEN [state |-> "speaking", padding_buffer |-> pb,
                   utterance_chunks |-> pb,
                   speech_start_time |-> pb[1].timestamp,
                   last_speech_time |-> chunk.timestamp]
             ELSE [s EXCEPT !.padding_buffer = pb]
    ELSE [s EXCEPT !.utterance_chunks = Append(@, chunk),
                   !.last_speech_time =
                       IF is_speech THEN chunk.timestamp ELSE @]

\* The FSM step of _detect_loop up to the decision to emit: the locals after
\* the chunk was accumulated.
SegAccumulate(s, chunk, is_speech) ==
    IF s.state = "idle"
    THEN LET pb == DequeAppend(s.padding_buffer, chunk, PaddingMaxLen)
         IN  IF is_speech
             THEN [state |-> "speaking", padding_buffer |-> pb,
                   utterance_chunks |-> pb,
                   speech_start_time |-> chunk.timestamp,
                   last_speech_time |-> chunk.timestamp]
             ELSE [s EXCEPT !.padding_buffer = pb]
    ELSE [s EXCEPT !.utterance_chunks = Append(@, chunk),
                   !.last_speech_time =
                       IF is_speech THEN chunk.timestamp ELSE @]

\* An emit test with strict comparisons.
SegEmitsStrict(s, chunk, is_speech) ==
    /\ s.state = "speaking"
    /\ LET t == SegAccumulate(s, chunk, is_speech)
           silence_duration == chunk.timestamp - t.last_speech_time
           speech_duration == chunk.timestamp - t.speech_start_time
       IN  \/ silence_duration > SILENCE_TIMEOUT
           \/ speech_duration > MAX_SPEECH_DURATION

\* An emit test that knows the silence timeout only.
SegEmitsOnSilenceOnly(s, chunk, is_speech) ==
    /\ s.state = "speaking"
    /\ LET t == SegAccumulate(s, chunk, is_speech)
       IN  chunk.timestamp - t.last_speech_time >= SILENCE_TIMEOUT

\* Whether the step emits: the chunk was taken in state speaking and the
\* silence or the speech has lasted long enough.
SegEmits(s, chunk, is_speech) ==
    /\ s.state = "speaking"
    /\ LET t == SegAccumulate(s, chunk, is_speech)
           silence_duration == chunk.timestamp - t.last_speech_time
           speech_duration == chunk.timestamp - t.speech_start_time
       IN  \/ silence_duration >= SILENCE_TIMEOUT
           \/ speech_duration >= MAX_SPEECH_DURATION

\* A reset that leaves the padding buffer as it was.
SegResetKeepsPadding(s) ==
    [s EXCEPT !.state = "idle", !.utterance_chunks = <<>>]

\* What _detect_loop leaves after _emit_utterance returned.
SegReset(s) ==
    [s EXCEPT !.state = "idle", !.utterance_chunks = <<>>,
              !.padding_buffer = <<>>]

\* The Utterance _emit_utterance builds from (chunks, start, end).
BuildUtterance(s, now) ==
    Utterance(s.utterance_chunks, s.speech_start_time, now)


\* A reset that starts the calibration again.
VadResetRestarts(v) == NewVAD

\* EnergyVAD.reset: a no-op
VadReset(v) == v

\* ------------------------------------------------------- variable groups

callerVars == <<running, stopEvent, callerPc, lifecycle>>
cfgVars == <<onUtterance, onTranscript>>
capVars == <<capPc, capChunk, clock, capError, readCalls, framesRead>>
detVars == <<detPc, seg, detUtt, vad, dropWarnings, emitLog>>
trVars == <<trPc, trUtt, trOutcome, recognizeLog, handlerLog, transcriptLog>>
segVars == <<device, stream, pos>>

NoStream == [lead |-> 0, speech |-> 0, trail |-> 0, gap |-> 0]

\* How a call of start() or stop() may end: start() starts the threads or
\* raises RuntimeError, stop() stops the pipeline or returns at "if not
\* self._running".
CallResults == {"started", "start_raised", "stopped", "stop_returned"}

\* ------------------------------------------------------------- __init__

dispatchVars == <<should_listen, listen_trigger_all,
                  listen_command_buffer_length, command_list, trigger_active,
                  active_trigger_type>>
listenerVars == <<listenerPc, inserted, fired>>
getVars == <<getPc, number, to_return, returned, lastGet>>

svcVars == <<rapidfuzz, attrs, service, fuzzy_matcher, constructed, reconfigLog,
             matchInput, matchResult, dispatchVars, listenerVars, getVars>>

\* match_trigger's result when it returns None
NoMatch == [matched |-> FALSE]

\* self.fuzzy_matcher = None
None == [exists |-> FALSE]

NoAttrs == [given |-> FALSE]
Unconfigured == [configured |-> FALSE]
NotConstructed == [called |-> FALSE]
NoMatchInput == [given |-> FALSE]
NothingFired == [called |-> FALSE, tick |-> FALSE]
NothingTaken == [called |-> FALSE, raced |-> FALSE]

DEFAULT_BUFFER_LENGTH == 10

\* The trigger dispatch of a service no config has reached yet: the values
\* reconfigure gives the fields when the config names none of them, and no
\* thread inside the command list.
NoDispatch ==
    /\ should_listen = FALSE
    /\ listen_trigger_all = FALSE
    /\ listen_command_buffer_length = DEFAULT_BUFFER_LENGTH
    /\ command_list = <<>>
    /\ trigger_active = FALSE
    /\ active_trigger_type = ""
    /\ listenerPc = "idle"
    /\ getPc = "idle"
    /\ number = 0
    /\ to_return = <<>>
    /\ inserted = 0
    /\ fired = NothingFired
    /\ returned = {}
    /\ lastGet = NothingTaken

\* No service and no matcher: the pipeline on its own.
NoService ==
    /\ rapidfuzz = TRUE
    /\ attrs = NoAttrs
    /\ service = Unconfigured
    /\ fuzzy_matcher = None
    /\ constructed = NotConstructed
    /\ reconfigLog = <<>>
    /\ matchInput = NoMatchInput
    /\ matchResult = NoMatch
    /\ NoDispatch

\* AudioPipeline.__init__: on_utterance and on_transcript are the
\* constructor's arguments; on_error defaults to the logging handler. The
\* source's device will deliver one of the given streams.
PipelineInit(streams, handlers, callbacks) ==
    /\ running = FALSE
    /\ stopEvent = FALSE
    /\ captureQ = <<>>
    /\ utteranceQ = <<>>
    /\ metrics = PipelineMetrics
    /\ vad = NewVAD
    /\ onUtterance \in handlers
    /\ onTranscript \in callbacks
    /\ callerPc = "idle"
    /\ lifecycle = "none"
    /\ capPc = "none"
    /\ capChunk = NoChunk
    /\ clock = 0
    /\ capError = "none"
    /\ detPc = "none"
    /\ seg = NewSegmenter
    /\ detUtt = NoUtterance
    /\ trPc = "none"
    /\ trUtt = NoUtterance
    /\ readCalls = 0
    /\ framesRead = 0
    /\ onErrorCalls = [capture |-> 0, detect |-> 0, transcribe |-> 0]
    /\ dropWarnings = 0
    /\ emitLog = <<>>
    /\ trOutcome = "none"
    /\ recognizeLog = <<>>
    /\ handlerLog = <<>>
    /\ transcriptLog = <<>>
    /\ device \in streams
    /\ stream = NoStream
    /\ pos = 0

\* A pipeline on its own, without the service around it
InitFrom(streams, handlers, callbacks) ==
    /\ PipelineInit(streams, handlers, callbacks)
    /\ NoService

Init == InitFrom(DeviceStreams, BOOLEAN, BOOLEAN)

\* ------------------------------------------------------- start and stop

\* Whether no thread of an earlier start() is alive.
ThreadsEnded == {capPc, detPc, trPc} \subseteq {"none", "done"}

\* A start() that makes a fresh PipelineMetrics for the new run.
StartResetsMetrics ==
    /\ callerPc = "idle"
    /\ ~running
    /\ ThreadsEnded
    /\ running' = TRUE
    /\ stopEvent' = FALSE
    /\ lifecycle' = "started"
    /\ capPc' = "loop"
    /\ detPc' = "loop"
    /\ trPc' = "loop"
    /\ seg' = NewSegmenter
    /\ metrics' = PipelineMetrics
    /\ UNCHANGED <<captureQ, utteranceQ, vad, cfgVars, callerPc,
                   capChunk, clock, capError, detUtt, trUtt, trOutcome,
                   readCalls, framesRead, onErrorCalls, dropWarnings, emitLog,
                   recognizeLog, handlerLog, transcriptLog, segVars,
                   svcVars>>

\* start() on a pipeline that is not running: the three threads are created
\* and started, each with fresh locals; queues, VAD and metrics are those of
\* __init__. The caller starts the pipeline again only when the threads of
\* the run before have ended: a thread that a timed-out join left alive would
\* run beside the new thread of its stage, which this model does not have.
Start ==
    /\ callerPc = "idle"
    /\ ~running
    /\ ThreadsEnded
    /\ running' = TRUE
    /\ stopEvent' = FALSE
    /\ lifecycle' = "started"
    /\ capPc' = "loop"
    /\ detPc' = "loop"
    /\ trPc' = "loop"
    /\ seg' = NewSegmenter
    /\ UNCHANGED <<captureQ, utteranceQ, metrics, vad, cfgVars, callerPc,
                   capChunk, clock, capError, detUtt, trUtt, trOutcome,
                   readCalls, framesRead, onErrorCalls, dropWarnings, emitLog,
                   recognizeLog, handlerLog, transcriptLog, segVars,
                   svcVars>>

\* start() on a running pipeline: raise RuntimeError("Pipeline already
\* running").
StartWhileRunning ==
    /\ callerPc = "idle"
    /\ running
    /\ lifecycle' = "start_raised"
    /\ UNCHANGED <<running, stopEvent, callerPc, captureQ, utteranceQ,
                   metrics, cfgVars, capVars, detVars, trVars, onErrorCalls,
                   segVars,
                   svcVars>>

\* A stop() without the test of _running: it puts its pill whatever the
\* state.
StopWhileStoppedPutsPill ==
    /\ callerPc = "idle"
    /\ ~running
    /\ lifecycle' = "stop_returned"
    /\ captureQ' = IF QueueFull(captureQ, CaptureQueueCap) THEN captureQ
                   ELSE Append(captureQ, PoisonChunk)
    /\ UNCHANGED <<running, stopEvent, callerPc, utteranceQ,
                   metrics, cfgVars, capVars, detVars, trVars, onErrorCalls,
                   segVars,
                   svcVars>>

\* stop() on a pipeline that is not running: "Pipeline not running" is
\* logged at debug level and stop() returns.
StopWhileStopped ==
    /\ callerPc = "idle"
    /\ ~running
    /\ lifecycle' = "stop_returned"
    /\ UNCHANGED <<running, stopEvent, callerPc, captureQ, utteranceQ,
                   metrics, cfgVars, capVars, detVars, trVars, onErrorCalls,
                   segVars,
                   svcVars>>

\* stop() on a running pipeline, up to the first put_nowait(None).
StopBegin ==
    /\ callerPc = "idle"
    /\ running
    /\ running' = FALSE
    /\ stopEvent' = TRUE
    /\ callerPc' = "pill_capture"
    /\ lifecycle' = "stopped"
    /\ UNCHANGED <<captureQ, utteranceQ, metrics, cfgVars, capVars, detVars,
                   trVars, onErrorCalls, segVars,
                   svcVars>>

\* queue.put_nowait(None), queue.Full passed over
PutPill(q, pill, maxsize) ==
    IF QueueFull(q, maxsize) THEN q ELSE Append(q, pill)

StopPillCapture ==
    /\ callerPc = "pill_capture"
    /\ PutNowaitReady(captureQ, CaptureQueueCap)
    /\ captureQ' = PutPill(captureQ, PoisonChunk, CaptureQueueCap)
    /\ callerPc' = "pill_utterance"
    /\ UNCHANGED <<running, stopEvent, lifecycle, utteranceQ, metrics, cfgVars,
                   capVars,                   detVars, trVars, onErrorCalls, segVars,
                   svcVars>>

StopPillUtterance ==
    /\ callerPc = "pill_utterance"
    /\ PutNowaitReady(utteranceQ, UtteranceQueueCap)
    /\ utteranceQ' = PutPill(utteranceQ, PoisonUtterance, UtteranceQueueCap)
    /\ callerPc' = "join"
    /\ UNCHANGED <<running, stopEvent, lifecycle, captureQ, metrics, cfgVars,
                   capVars,                   detVars, trVars, onErrorCalls, segVars,
                   svcVars>>

\* The joins, each of which returns when its thread has ended or after the
\* timeout, and _threads.clear().
StopJoin ==
    /\ callerPc = "join"
    /\ callerPc' = "idle"
    /\ UNCHANGED <<running, stopEvent, lifecycle, captureQ, utteranceQ,
                   metrics, cfgVars, capVars, detVars, trVars, onErrorCalls,
                   segVars,
                   svcVars>>

\* -------------------------------------------------------- _capture_loop

\* on_error(e), guarded by "if self._running"
ReportIfRunning(calls, who) ==
    IF running THEN [calls EXCEPT ![who] = @ + 1] ELSE calls

\* while self._running
CaptureCheck ==
    /\ capPc = "loop"
    /\ capPc' = IF running THEN "read" ELSE "done"
    /\ UNCHANGED <<callerVars, captureQ, utteranceQ, metrics, cfgVars,
                   capChunk, clock, capError, readCalls, framesRead, detVars,
                   trVars, onErrorCalls, segVars,
                   svcVars>>

\* s.stream.read(chunk_samples) returns the device's next frame and the chunk
\* is stamped with time.monotonic().
CaptureRead ==
    /\ capPc = "read"
    /\ framesRead < Len(device)
    /\ clock' = clock + device[framesRead + 1][1]
    /\ capChunk' = AudioChunk(clock', device[framesRead + 1][2])
    /\ capError' = "none"
    /\ capPc' = "put"
    /\ readCalls' = readCalls + 1
    /\ framesRead' = framesRead + 1
    /\ UNCHANGED <<callerVars, captureQ, utteranceQ, metrics, cfgVars,
                   detVars, trVars, onErrorCalls, segVars,
                   svcVars>>

\* A loop whose every except clause ends with break.
AfterReadErrorBreaks(error) == "done"

\* Where the loop goes from an except clause: "except OSError" ends with
\* break, "except Exception" falls through to the next iteration.
AfterReadError(error) == IF error = "OSError" THEN "done" ELSE "loop"

\* s.stream.read raises OSError: reported if still running, and the loop is
\* left.
CaptureReadOSError ==
    /\ capPc = "read"
    /\ readCalls - framesRead < MaxReadErrors
    /\ onErrorCalls' = ReportIfRunning(onErrorCalls, "capture")
    /\ capError' = "OSError"
    /\ capPc' = AfterReadError("OSError")
    /\ readCalls' = readCalls + 1
    /\ UNCHANGED <<callerVars, captureQ, utteranceQ, metrics, cfgVars,
                   capChunk, clock, framesRead, detVars, trVars, segVars,
                   svcVars>>

\* s.stream.read raises another Exception: reported if still running, and the
\* loop goes on.
CaptureReadException ==
    /\ capPc = "read"
    /\ readCalls - framesRead < MaxReadErrors
    /\ onErrorCalls' = ReportIfRunning(onErrorCalls, "capture")
    /\ capError' = "Exception"
    /\ capPc' = AfterReadError("Exception")
    /\ readCalls' = readCalls + 1
    /\ UNCHANGED <<callerVars, captureQ, utteranceQ, metrics, cfgVars,
                   capChunk, clock, framesRead, detVars, trVars, segVars,
                   svcVars>>

\* A capture loop that drops a frame without counting it.
CaptureCountDropsUncounted(m, full) ==
    IF full THEN m ELSE [m EXCEPT !.chunks_captured = @ + 1]

\* The metrics after self._capture_queue.put_nowait(chunk): chunks_captured
\* on success, chunks_dropped on queue.Full.
CaptureCount(m, full) ==
    IF full
    THEN [m EXCEPT !.chunks_dropped = @ + 1]
    ELSE [m EXCEPT !.chunks_captured = @ + 1]

\* The capture queue after put_nowait(chunk): unchanged on queue.Full.
CaptureEnqueue(q, chunk) ==
    IF QueueFull(q, CaptureQueueCap) THEN q ELSE Append(q, chunk)

CapturePut ==
    /\ capPc = "put"
    /\ PutNowaitReady(captureQ, CaptureQueueCap)
    /\ captureQ' = CaptureEnqueue(captureQ, capChunk)
    /\ metrics' = CaptureCount(metrics, QueueFull(captureQ, CaptureQueueCap))
    /\ capChunk' = NoChunk
    /\ capPc' = "loop"
    /\ UNCHANGED <<callerVars, utteranceQ, cfgVars, clock, capError,
                   readCalls, framesRead, detVars, trVars, onErrorCalls,
                   segVars,
                   svcVars>>

\* --------------------------------------------------------- _detect_loop

\* A get without a timeout: it waits until the queue holds an item.
GetWaitsForItem(q) == FALSE

\* Whether queue.get(timeout=0.1) raises queue.Empty: when the queue stays
\* empty for the timeout.
GetTimesOut(q) == q = <<>>

\* while self._running
DetectCheck ==
    /\ detPc = "loop"
    /\ detPc' = IF running THEN "get" ELSE "done"
    /\ UNCHANGED <<callerVars, captureQ, utteranceQ, metrics, cfgVars, capVars,
                   seg, detUtt, vad, dropWarnings, emitLog, trVars,
                   onErrorCalls, segVars,
                   svcVars>>

\* self._capture_queue.get(timeout=0.1) raises queue.Empty: continue
DetectTimeout ==
    /\ detPc = "get"
    /\ GetTimesOut(captureQ)
    /\ detPc' = "loop"
    /\ UNCHANGED <<callerVars, captureQ, utteranceQ, metrics, cfgVars, capVars,
                   seg, detUtt, vad, dropWarnings, emitLog, trVars,
                   onErrorCalls, segVars,
                   svcVars>>

\* get() returns the poison pill: break
DetectPoison ==
    /\ detPc = "get"
    /\ captureQ # <<>>
    /\ Head(captureQ) = PoisonChunk
    /\ captureQ' = Tail(captureQ)
    /\ detPc' = "done"
    /\ UNCHANGED <<callerVars, utteranceQ, metrics, cfgVars, capVars,
                   seg, detUtt, vad, dropWarnings, emitLog, trVars,
                   onErrorCalls, segVars,
                   svcVars>>

\* get() returns a chunk: the VAD is run on it and the FSM takes its step, up
\* to the put_nowait of _emit_utterance when the step closes the utterance.
DetectChunk ==
    /\ detPc = "get"
    /\ captureQ # <<>>
    /\ Head(captureQ) # PoisonChunk
    /\ LET chunk == Head(captureQ)
           is_speech == VadIsSpeech(vad, chunk.energy)
           emits == SegEmits(seg, chunk, is_speech)
           acc == SegAccumulate(seg, chunk, is_speech)
       IN  /\ captureQ' = Tail(captureQ)
           /\ vad' = VadUpdate(vad, chunk.energy)
           /\ seg' = IF emits /\ acc.utterance_chunks = <<>>
                     THEN SegReset(acc) ELSE acc
           /\ detUtt' = IF emits /\ acc.utterance_chunks # <<>>
                        THEN BuildUtterance(acc, chunk.timestamp)
                        ELSE NoUtterance
           /\ detPc' = IF emits /\ acc.utterance_chunks # <<>>
                       THEN "emit" ELSE "loop"
    /\ UNCHANGED <<callerVars, utteranceQ, metrics, cfgVars, capVars,
                   dropWarnings, emitLog, trVars, onErrorCalls, segVars,
                   svcVars>>

\* A put that adds the utterance at the head of the queue.
EmitEnqueueAtHead(q, utterance) ==
    IF QueueFull(q, UtteranceQueueCap) THEN q ELSE <<utterance>> \o q

\* The utterance queue after put_nowait(utterance): unchanged on queue.Full.
EmitEnqueue(q, utterance) ==
    IF QueueFull(q, UtteranceQueueCap) THEN q ELSE Append(q, utterance)

\* self._utterance_queue.put_nowait(utterance) succeeds; utterances_detected
\* is incremented in the next step.
DetectPut ==
    /\ detPc = "emit"
    /\ PutNowaitReady(utteranceQ, UtteranceQueueCap)
    /\ ~QueueFull(utteranceQ, UtteranceQueueCap)
    /\ utteranceQ' = EmitEnqueue(utteranceQ, detUtt)
    /\ emitLog' = Append(emitLog, [utt |-> detUtt, queued |-> TRUE])
    /\ detPc' = "count"
    /\ UNCHANGED <<callerVars, captureQ, metrics, cfgVars, capVars, seg,
                   detUtt, vad, dropWarnings, trVars, onErrorCalls, segVars,
                   svcVars>>

\* A drop that counts the utterance as detected before the put is tried.
DetectDropCounted ==
    /\ detPc = "emit"
    /\ PutNowaitReady(utteranceQ, UtteranceQueueCap)
    /\ QueueFull(utteranceQ, UtteranceQueueCap)
    /\ utteranceQ' = EmitEnqueue(utteranceQ, detUtt)
    /\ emitLog' = Append(emitLog, [utt |-> detUtt, queued |-> FALSE])
    /\ metrics' = [metrics EXCEPT !.utterances_detected = @ + 1]
    /\ dropWarnings' = dropWarnings + 1
    /\ seg' = SegReset(seg)
    /\ vad' = VadReset(vad)
    /\ detUtt' = NoUtterance
    /\ detPc' = "loop"
    /\ UNCHANGED <<callerVars, captureQ, cfgVars, capVars, trVars,
                   onErrorCalls, segVars,
                   svcVars>>

\* put_nowait raises queue.Full: the warning is logged, _emit_utterance
\* returns and the loop resets its locals.
DetectDrop ==
    /\ detPc = "emit"
    /\ PutNowaitReady(utteranceQ, UtteranceQueueCap)
    /\ QueueFull(utteranceQ, UtteranceQueueCap)
    /\ utteranceQ' = EmitEnqueue(utteranceQ, detUtt)
    /\ emitLog' = Append(emitLog, [utt |-> detUtt, queued |-> FALSE])
    /\ dropWarnings' = dropWarnings + 1
    /\ seg' = SegReset(seg)
    /\ vad' = VadReset(vad)
    /\ detUtt' = NoUtterance
    /\ detPc' = "loop"
    /\ UNCHANGED <<callerVars, captureQ, metrics, cfgVars, capVars, trVars,
                   onErrorCalls, segVars,
                   svcVars>>

\* A detect loop that goes on without counting the utterance it has queued.
DetectCountForgets ==
    /\ detPc = "count"
    /\ seg' = SegReset(seg)
    /\ vad' = VadReset(vad)
    /\ detUtt' = NoUtterance
    /\ detPc' = "loop"
    /\ UNCHANGED <<callerVars, captureQ, utteranceQ, metrics, cfgVars,
                   capVars, dropWarnings, emitLog, trVars, onErrorCalls,
                   segVars, svcVars>>

\* self.metrics.utterances_detected += 1, then the loop resets its locals.
DetectCount ==
    /\ detPc = "count"
    /\ metrics' = [metrics EXCEPT !.utterances_detected = @ + 1]
    /\ seg' = SegReset(seg)
    /\ vad' = VadReset(vad)
    /\ detUtt' = NoUtterance
    /\ detPc' = "loop"
    /\ UNCHANGED <<callerVars, captureQ, utteranceQ, cfgVars, capVars,
                   dropWarnings, emitLog, trVars, onErrorCalls, segVars,
                   svcVars>>

\* ------------------------------------------------------ _transcribe_loop

\* How recognize_google, or the on_utterance handler, may end: it returns, or
\* raises sr.UnknownValueError, sr.RequestError or another Exception.
CallOutcomes == {"ok", "unknown", "request", "other"}
\* How on_transcript may end: it returns, or raises an Exception.
CallbackOutcomes == {"ok", "raise"}

\* while self._running
TranscribeCheck ==
    /\ trPc = "loop"
    /\ trPc' = IF running THEN "get" ELSE "done"
    /\ UNCHANGED <<callerVars, captureQ, utteranceQ, metrics, cfgVars, capVars,
                   detVars, trUtt, trOutcome, recognizeLog, handlerLog,
                   transcriptLog, onErrorCalls, segVars,
                   svcVars>>

\* self._utterance_queue.get(timeout=0.1) raises queue.Empty: continue
TranscribeTimeout ==
    /\ trPc = "get"
    /\ GetTimesOut(utteranceQ)
    /\ trPc' = "loop"
    /\ UNCHANGED <<callerVars, captureQ, utteranceQ, metrics, cfgVars, capVars,
                   detVars, trUtt, trOutcome, recognizeLog, handlerLog,
                   transcriptLog, onErrorCalls, segVars,
                   svcVars>>

\* get() returns the poison pill: break
TranscribePoison ==
    /\ trPc = "get"
    /\ utteranceQ # <<>>
    /\ Head(utteranceQ) = PoisonUtterance
    /\ utteranceQ' = Tail(utteranceQ)
    /\ trPc' = "done"
    /\ UNCHANGED <<callerVars, captureQ, metrics, cfgVars, capVars,
                   detVars, trUtt, trOutcome, recognizeLog, handlerLog,
                   transcriptLog, onErrorCalls, segVars,
                   svcVars>>

\* A loop that calls recognize_google whether or not on_utterance is set.
DispatchIgnoresHandler(handler) == "recognize"

\* Which call the loop makes with a dequeued utterance: on_utterance if one
\* is configured, recognize_google otherwise.
Dispatch(handler) == IF handler THEN "handler" ELSE "recognize"

\* get() returns an utterance and the loop makes its call with it.
TranscribeGet ==
    /\ trPc = "get"
    /\ utteranceQ # <<>>
    /\ Head(utteranceQ) # PoisonUtterance
    /\ utteranceQ' = Tail(utteranceQ)
    /\ trUtt' = Head(utteranceQ)
    /\ trPc' = Dispatch(onUtterance)
    /\ recognizeLog' = IF Dispatch(onUtterance) = "recognize"
                       THEN Append(recognizeLog, Head(utteranceQ))
                       ELSE recognizeLog
    /\ handlerLog' = IF Dispatch(onUtterance) = "handler"
                     THEN Append(handlerLog, Head(utteranceQ))
                     ELSE handlerLog
    /\ UNCHANGED <<callerVars, captureQ, metrics, cfgVars, capVars, detVars,
                   trOutcome, transcriptLog, onErrorCalls, segVars,
                   svcVars>>

\* recognize_google returns or raises.
RecognizeReturn(outcome) ==
    /\ trPc = "recognize"
    /\ trOutcome' = outcome
    /\ trPc' = "result"
    /\ UNCHANGED <<callerVars, captureQ, utteranceQ, metrics, cfgVars, capVars,
                   detVars, trUtt, recognizeLog, handlerLog, transcriptLog,
                   onErrorCalls, segVars,
                   svcVars>>

\* on_utterance returns or raises.
HandlerReturn(outcome) ==
    /\ trPc = "handler"
    /\ trOutcome' = outcome
    /\ trPc' = "result"
    /\ UNCHANGED <<callerVars, captureQ, utteranceQ, metrics, cfgVars, capVars,
                   detVars, trUtt, recognizeLog, handlerLog, transcriptLog,
                   onErrorCalls, segVars,
                   svcVars>>

\* Metrics that count sr.UnknownValueError as a transcription error.
ResultMetricsUnknownCounted(m, outcome, handler) ==
    IF outcome = "ok"
    THEN IF handler THEN m ELSE [m EXCEPT !.utterances_transcribed = @ + 1]
    ELSE [m EXCEPT !.transcription_errors = @ + 1]

\* The metrics after the call ended: utterances_transcribed is incremented
\* when recognize_google returned; the except clauses pass over
\* sr.UnknownValueError and count sr.RequestError and any other Exception as a
\* transcription error.
ResultMetrics(m, outcome, handler) ==
    IF outcome = "ok"
    THEN IF handler THEN m ELSE [m EXCEPT !.utterances_transcribed = @ + 1]
    ELSE IF outcome \in {"request", "other"}
         THEN [m EXCEPT !.transcription_errors = @ + 1]
         ELSE m

\* The on_error calls after the call ended: one by each of the except clauses
\* for sr.RequestError and for any other Exception.
ResultReport(calls, outcome) ==
    IF outcome \in {"request", "other"}
    THEN [calls EXCEPT !.transcribe = @ + 1]
    ELSE calls

\* A loop with no except clause for exceptions other than the recognizer's
\* two: such an exception ends the thread.
AfterCallUncaught(outcome, handler, callback) ==
    IF outcome = "other" THEN "done"
    ELSE IF outcome = "ok" /\ ~handler /\ callback THEN "callback" ELSE "loop"

\* Where the loop goes after the call ended: into on_transcript when
\* recognize_google returned and a callback is configured, and to the next
\* iteration otherwise, every except clause falling through to it.
AfterCall(outcome, handler, callback) ==
    IF outcome = "ok" /\ ~handler /\ callback THEN "callback" ELSE "loop"

\* The loop's code after the call: the counters, the except clauses and the
\* call of on_transcript.
TranscribeResult ==
    /\ trPc = "result"
    /\ metrics' = ResultMetrics(metrics, trOutcome, onUtterance)
    /\ onErrorCalls' = ResultReport(onErrorCalls, trOutcome)
    /\ trPc' = AfterCall(trOutcome, onUtterance, onTranscript)
    /\ transcriptLog' =
         IF AfterCall(trOutcome, onUtterance, onTranscript) = "callback"
         THEN Append(transcriptLog, trUtt)
         ELSE transcriptLog
    /\ trUtt' = IF AfterCall(trOutcome, onUtterance, onTranscript) = "callback"
                THEN trUtt ELSE NoUtterance
    /\ trOutcome' = "none"
    /\ UNCHANGED <<callerVars, captureQ, utteranceQ, cfgVars, capVars,
                   detVars, recognizeLog, handlerLog, segVars,
                   svcVars>>

\* on_transcript returns or raises; what it raises is passed to on_error by
\* the inner except clause.
CallbackReturn(outcome) ==
    /\ trPc = "callback"
    /\ onErrorCalls' = IF outcome = "raise"
                       THEN [onErrorCalls EXCEPT !.transcribe = @ + 1]
                       ELSE onErrorCalls
    /\ trUtt' = NoUtterance
    /\ trPc' = "loop"
    /\ UNCHANGED <<callerVars, captureQ, utteranceQ, metrics, cfgVars,
                   capVars, detVars, trOutcome, recognizeLog, handlerLog,
                   transcriptLog, segVars,
                   svcVars>>

\* ------------------------------------------------- the running pipeline

Stop == StopBegin \/ StopPillCapture \/ StopPillUtterance \/ StopJoin

Capture ==
    \/ CaptureCheck
    \/ CaptureRead
    \/ CaptureReadOSError
    \/ CaptureReadException
    \/ CapturePut

Detect ==
    \/ DetectCheck
    \/ DetectTimeout
    \/ DetectChunk
    \/ DetectPut
    \/ DetectDrop
    \/ DetectCount

Transcribe ==
    \/ TranscribeCheck
    \/ TranscribeTimeout
    \/ TranscribeGet
    \/ \E outcome \in CallOutcomes : RecognizeReturn(outcome)
    \/ \E outcome \in CallOutcomes : HandlerReturn(outcome)
    \/ TranscribeResult
    \/ \E outcome \in CallbackOutcomes : CallbackReturn(outcome)

\* The pipeline from its construction on, started once and not stopped: the
\* poison pills, which only stop() puts, are never dequeued.
Next == Start \/ Capture \/ Detect \/ Transcribe

Spec == Init /\ [][Next]_vars

\* The running pipeline with threads that are scheduled again and again and
\* calls of the recognizer, the handler and the callback that return: a
\* detect or transcribe step that stays possible is eventually taken.
SpecFair == Spec /\ WF_vars(Detect) /\ WF_vars(Transcribe)

\* The audio the device delivers in a run with stop() and a second start().
StopStreams == { <<Fq, Fl, Fs>> }

\* A pipeline constructed with on_transcript, with or without on_utterance.
InitStop == InitFrom(StopStreams, BOOLEAN, {TRUE})

\* The pipeline with stop(): the caller may stop it at any moment, start it
\* again, and call start() and stop() in the wrong state.
NextStop ==
    \/ Next
    \/ Stop
    \/ StartWhileRunning
    \/ StopWhileStopped
    \/ DetectPoison
    \/ TranscribePoison

SpecStop == InitStop /\ [][NextStop]_vars

\* The same with threads that are scheduled again and again, a device read
\* that returns or raises while the device has a frame or an error to
\* deliver, and calls of the recognizer, the handler and the callback that
\* return.
SpecStopFair ==
    /\ SpecStop
    /\ WF_vars(Capture)
    /\ WF_vars(Detect \/ DetectPoison)
    /\ WF_vars(Transcribe \/ TranscribePoison)

\* ------------------------------------------------ the segmenter alone

\* A chunk stream with given VAD verdicts: lead chunks of silence, then
\* speech chunks of speech, then trail chunks of silence, consecutive
\* timestamps gap milliseconds apart.
StreamLen(st) == st.lead + st.speech + st.trail

StreamVerdict(st, k) == st.lead < k /\ k <= st.lead + st.speech

StreamChunk(st, k) ==
    AudioChunk(k * st.gap, IF StreamVerdict(st, k) THEN LOUD ELSE QUIET)

\* Speech chunks enough to pass the maximum duration and start again.
LongSpeech == MAX_SPEECH_DURATION \div FRAME_DURATION_MS + 3

ShortStreams ==
    [lead : {0, 5, 12}, speech : {1, 10}, trail : {0, 26, 27, 40},
     gap : {FRAME_DURATION_MS, 40}]

LongStreams ==
    [lead : {0, 12}, speech : {LongSpeech}, trail : {0, 27},
     gap : {FRAME_DURATION_MS}]

SegStreams == ShortStreams \cup LongStreams

\* The pipeline as constructed, its threads not started, and a stream to run
\* the detect loop's body on.
SegInit ==
    /\ running = FALSE
    /\ stopEvent = FALSE
    /\ captureQ = <<>>
    /\ utteranceQ = <<>>
    /\ metrics = PipelineMetrics
    /\ vad = NewVAD
    /\ onUtterance = FALSE
    /\ onTranscript = FALSE
    /\ callerPc = "idle"
    /\ lifecycle = "none"
    /\ capPc = "none"
    /\ capChunk = NoChunk
    /\ clock = 0
    /\ capError = "none"
    /\ detPc = "none"
    /\ seg = NewSegmenter
    /\ detUtt = NoUtterance
    /\ trPc = "none"
    /\ trUtt = NoUtterance
    /\ trOutcome = "none"
    /\ readCalls = 0
    /\ framesRead = 0
    /\ onErrorCalls = [capture |-> 0, detect |-> 0, transcribe |-> 0]
    /\ dropWarnings = 0
    /\ emitLog = <<>>
    /\ recognizeLog = <<>>
    /\ handlerLog = <<>>
    /\ transcriptLog = <<>>
    /\ device = <<>>
    /\ stream \in SegStreams
    /\ NoService
    /\ pos = 0

\* One iteration of _detect_loop on the stream's next chunk with the stream's
\* verdict for it (pipeline.py:227-265), _emit_utterance included.
SegFeed ==
    /\ pos < StreamLen(stream)
    /\ LET chunk == StreamChunk(stream, pos + 1)
           is_speech == StreamVerdict(stream, pos + 1)
           acc == SegAccumulate(seg, chunk, is_speech)
           closes == SegEmits(seg, chunk, is_speech)
           emits == closes /\ acc.utterance_chunks # <<>>
           utterance == BuildUtterance(acc, chunk.timestamp)
           full == QueueFull(utteranceQ, UtteranceQueueCap)
       IN  IF emits
           THEN /\ utteranceQ' = EmitEnqueue(utteranceQ, utterance)
                /\ emitLog' = Append(emitLog, [utt |-> utterance,
                                               queued |-> ~full])
                /\ metrics' = IF full THEN metrics
                              ELSE [metrics EXCEPT
                                       !.utterances_detected = @ + 1]
                /\ dropWarnings' = IF full THEN dropWarnings + 1
                                   ELSE dropWarnings
                /\ seg' = SegReset(acc)
                /\ vad' = VadReset(vad)
           ELSE /\ seg' = IF closes THEN SegReset(acc) ELSE acc
                /\ UNCHANGED <<utteranceQ, emitLog, metrics, dropWarnings,
                               vad>>
    /\ pos' = pos + 1
    /\ UNCHANGED <<callerVars, captureQ, cfgVars, capVars, detPc, detUtt,
                   trVars, onErrorCalls, device, stream, svcVars>>

SegNext == SegFeed

SpecSeg == SegInit /\ [][SegNext]_vars

\* ------------------------------------------- the detect loop with its VAD

\* The energy of a frame of steady noise, above the static threshold.
NOISY == 400

\* A noisy frame one frame later.
Fn == <<FRAME_DURATION_MS, NOISY>>

Repeat(frame, n) == [i \in 1..n |-> frame]

\* Chunks enough to go past the VAD's calibration.
PastCalibration == CALIBRATION_CHUNKS + 5

\* The audio the detect loop is run on: a long silence, speech closed by a
\* stall, and speech again after a long or a short silence; steady noise, or
\* steady loud audio, from the first chunk on until after the calibration;
\* an utterance closed while the VAD calibrates, silence until after the
\* calibration, then speech and noise.
DetectStreams ==
    { Repeat(Fq, 12) \o <<Fl, Fs>> \o Repeat(Fq, 12) \o <<Fl, Fl, Fs, Fl, Fs>>,
      Repeat(Fq, 2) \o <<Fl, Fq, Fs>> \o Repeat(Fq, 3) \o <<Fl, Fs, Fl, Fl, Fs>>,
      Repeat(Fn, PastCalibration) \o <<Fs, Fq, Fn, Fs>>,
      Repeat(Fl, PastCalibration) \o <<Fs, Fn, Fl, Fs>>,
      Repeat(Fq, 5) \o <<Fl, Fs>> \o Repeat(Fq, CALIBRATION_CHUNKS - 8)
          \o <<Fn, Fl, Fn, Fs, Fq, Fn, Fl, Fs>> }

\* The pipeline as constructed, its threads not started, and the audio to
\* run the detect loop's body on.
InitDetect == InitFrom(DetectStreams, {FALSE}, {FALSE})

\* One iteration of _detect_loop on the device's next frame, stamped as
\* _capture_loop stamps it: self.vad.process(chunk), the FSM step and
\* _emit_utterance (pipeline.py:220-265).
DetectFeed ==
    /\ pos < Len(device)
    /\ clock' = clock + device[pos + 1][1]
    /\ LET chunk == AudioChunk(clock', device[pos + 1][2])
           is_speech == VadIsSpeech(vad, chunk.energy)
           processed == VadUpdate(vad, chunk.energy)
           acc == SegAccumulate(seg, chunk, is_speech)
           closes == SegEmits(seg, chunk, is_speech)
           emits == closes /\ acc.utterance_chunks # <<>>
           utterance == BuildUtterance(acc, chunk.timestamp)
           full == QueueFull(utteranceQ, UtteranceQueueCap)
       IN  /\ vad' = IF closes THEN VadReset(processed) ELSE processed
           /\ seg' = IF closes THEN SegReset(acc) ELSE acc
           /\ IF emits
              THEN /\ utteranceQ' = EmitEnqueue(utteranceQ, utterance)
                   /\ emitLog' = Append(emitLog, [utt |-> utterance,
                                                  queued |-> ~full])
                   /\ metrics' = IF full THEN metrics
                                 ELSE [metrics EXCEPT
                                          !.utterances_detected = @ + 1]
                   /\ dropWarnings' = IF full THEN dropWarnings + 1
                                      ELSE dropWarnings
              ELSE UNCHANGED <<utteranceQ, emitLog, metrics, dropWarnings>>
    /\ pos' = pos + 1
    /\ UNCHANGED <<callerVars, captureQ, cfgVars, capPc, capChunk, capError,
                   readCalls, framesRead, detPc, detUtt, trVars,
                   onErrorCalls, device, stream, svcVars>>

NextDetect == DetectFeed

SpecDetect == InitDetect /\ [][NextDetect]_vars

\* ------------------------------------------------- FuzzyWakeWordMatcher

\* A text is a sequence of characters, each a string of length one. The
\* characters of the model: lower-case and upper-case letters, white space,
\* the apostrophe and other punctuation.
UpperCase == {"H", "B", "I"}
WhiteSpace == {" ", "\t"}
Punctuation == {",", "!", "."}

\* str.lower, character by character
LowerChar(c) ==
    CASE c = "H" -> "h"
      [] c = "B" -> "b"
      [] c = "I" -> "i"
      [] OTHER -> c

LowerText(text) == [i \in 1..Len(text) |-> LowerChar(text[i])]

\* re.sub(r"[^\w\s']", " ", text): every character that is neither a word
\* character, nor white space, nor an apostrophe becomes a space.
BlankPunctuation(text) ==
    [i \in 1..Len(text) |-> IF text[i] \in Punctuation THEN " " ELSE text[i]]

\* re.sub(r"\s+", " ", text): every run of white space becomes one space.
RECURSIVE CollapseSpaces(_)
CollapseSpaces(text) ==
    IF text = <<>> THEN <<>>
    ELSE IF Head(text) \in WhiteSpace
         THEN IF Len(text) >= 2 /\ text[2] \in WhiteSpace
              THEN CollapseSpaces(Tail(text))
              ELSE <<" ">> \o CollapseSpaces(Tail(text))
         ELSE <<Head(text)>> \o CollapseSpaces(Tail(text))

\* str.strip: leading and trailing white space removed.
RECURSIVE StripLeft(_)
StripLeft(text) ==
    IF text # <<>> /\ Head(text) \in WhiteSpace
    THEN StripLeft(Tail(text)) ELSE text

RECURSIVE StripRight(_)
StripRight(text) ==
    IF text # <<>> /\ text[Len(text)] \in WhiteSpace
    THEN StripRight(SubSeq(text, 1, Len(text) - 1)) ELSE text

StripText(text) == StripRight(StripLeft(text))

\* _normalize_text
NormalizeText(text) ==
    StripText(CollapseSpaces(BlankPunctuation(LowerText(text))))

\* str.split(): the maximal runs of characters that are not white space.
RECURSIVE SplitFrom(_, _)
SplitFrom(text, word) ==
    IF text = <<>>
    THEN IF word = <<>> THEN <<>> ELSE <<word>>
    ELSE IF Head(text) \in WhiteSpace
         THEN IF word = <<>> THEN SplitFrom(Tail(text), <<>>)
              ELSE <<word>> \o SplitFrom(Tail(text), <<>>)
         ELSE SplitFrom(Tail(text), Append(word, Head(text)))

SplitWords(text) == SplitFrom(text, <<>>)

\* " ".join(words)
RECURSIVE JoinWords(_)
JoinWords(words) ==
    IF words = <<>> THEN <<>>
    ELSE IF Len(words) = 1 THEN words[1]
    ELSE words[1] \o <<" ">> \o JoinWords(Tail(words))

Min2(a, b) == IF a <= b THEN a ELSE b

\* rapidfuzz's Levenshtein.distance(a, b), insertions, deletions and
\* substitutions of weight 1, by rows of the dynamic programme: the row after
\* the character ch of a, given the row before it.
RECURSIVE LevRow(_, _, _, _)
LevRow(prev, ch, b, row) ==
    IF Len(row) = Len(b) + 1 THEN row
    ELSE LET j == Len(row)
             cost == IF b[j] = ch THEN 0 ELSE 1
             cell == Min2(Min2(prev[j + 1] + 1, row[j] + 1), prev[j] + cost)
         IN  LevRow(prev, ch, b, Append(row, cell))

RECURSIVE LevRows(_, _, _)
LevRows(a, b, prev) ==
    IF a = <<>> THEN prev
    ELSE LevRows(Tail(a), b, LevRow(prev, Head(a), b, <<prev[1] + 1>>))

Levenshtein(a, b) ==
    LevRows(a, b, [j \in 1..(Len(b) + 1) |-> j - 1])[Len(b) + 1]

\* text.find(sub, start): the lowest 0-based index at or after start where
\* sub occurs in text, -1 when there is none.
OccursAt(text, sub, k) ==
    /\ k + Len(sub) <= Len(text)
    /\ SubSeq(text, k + 1, k + Len(sub)) = sub

Find(text, sub, start) ==
    LET hits == { k \in start..Len(text) : OccursAt(text, sub, k) }
    IN  IF hits = {} THEN -1
        ELSE CHOOSE k \in hits : \A h \in hits : k <= h

\* text[a:b] for 0 <= a
Slice(text, a, b) == SubSeq(text, a + 1, Min2(b, Len(text)))

\* Confidences are held in hundredths: 1.0 is 100, 0.5 is 50.
PrimaryConfidence == 100
MinAltConfidence == 50
MaxAlternatives == 4
MIN_THRESHOLD == 0
MAX_THRESHOLD == 5

\* FuzzyWakeWordMatcher.__init__: the threshold kept by the matcher
ClampThresholdToDefault(threshold) ==
    IF threshold < MIN_THRESHOLD \/ threshold > MAX_THRESHOLD THEN 2
    ELSE threshold

ClampThreshold(threshold) ==
    IF threshold > MAX_THRESHOLD THEN MAX_THRESHOLD
    ELSE IF threshold < MIN_THRESHOLD THEN MIN_THRESHOLD
    ELSE threshold

\* _find_word_positions_in_original: <<start, end>> in the original text
FindWordPositions(original_text, matched_words, word_position) ==
    LET all_words == SplitWords(NormalizeText(original_text))
        words_before == SubSeq(all_words, 1, word_position)
        text_before_match == JoinWords(words_before)
        matched_text == JoinWords(matched_words)
        original_lower == LowerText(original_text)
        before_idx == Find(original_lower, LowerText(text_before_match), 0)
        search_start == IF words_before # <<>> /\ before_idx # -1
                        THEN before_idx + Len(text_before_match)
                        ELSE 0
        match_idx == Find(original_lower, LowerText(matched_text),
                          search_start)
        idx == Find(LowerText(NormalizeText(original_text)), matched_text, 0)
    IN  IF word_position < Len(all_words) /\ match_idx # -1
        THEN <<match_idx, match_idx + Len(matched_text)>>
        ELSE IF idx # -1
        THEN <<idx, idx + Len(matched_text)>>
        ELSE <<0, Len(matched_text)>>

\* The window of num_words words starting at word i (0-based), joined.
WindowText(transcript_words, i, num_words) ==
    JoinWords(SubSeq(transcript_words, i + 1, i + num_words))

\* The update of the best window by one window: a strictly smaller distance
\* replaces the best so far.
LaterWindowWins(distance, best_distance) == TRUE

\* An update at which a window as near as the best so far replaces it.
NoWorseWindowWins(distance, best_distance) == distance <= best_distance

Better(distance, best_distance) == distance < best_distance

\* The two nested loops of _match_single_transcript from window size
\* num_words and start i on, in the order the code visits the windows.
RECURSIVE ScanWindows(_, _, _, _, _, _)
ScanWindows(normalized_trigger, transcript_words, last_words, num_words, i, best) ==
    IF num_words > last_words THEN best
    ELSE IF i > Len(transcript_words) - num_words
    THEN ScanWindows(normalized_trigger, transcript_words, last_words,
                     num_words + 1, 0, best)
    ELSE LET distance == Levenshtein(normalized_trigger,
                             WindowText(transcript_words, i, num_words))
         IN  ScanWindows(normalized_trigger, transcript_words, last_words,
                         num_words, i + 1,
                         IF Better(distance, best.distance)
                         THEN [distance |-> distance, position |-> i,
                               word_count |-> num_words]
                         ELSE best)

\* Whether the best window found is returned as a match
WithinThresholdStrict(best, threshold) ==
    best.distance < threshold /\ best.position # -1

WithinThreshold(best, threshold) ==
    best.distance <= threshold /\ best.position # -1

\* Whether _match_single_transcript returns None before looking at any window
OnlyEmptyTranscript(trigger_words, transcript_words) ==
    transcript_words = <<>>

NothingToMatch(trigger_words, transcript_words) ==
    trigger_words = <<>> \/ transcript_words = <<>>

\* _match_single_transcript
MatchSingleTranscript(threshold, normalized_trigger, transcript, confidence, alt_index) ==
    LET trigger_words == SplitWords(normalized_trigger)
        transcript_words == SplitWords(NormalizeText(transcript))
        first_words == IF Len(trigger_words) - 1 > 1
                       THEN Len(trigger_words) - 1 ELSE 1
        best == ScanWindows(normalized_trigger, transcript_words,
                            Len(trigger_words) + 1, first_words, 0,
                            [distance |-> threshold + 1, position |-> -1,
                             word_count |-> Len(trigger_words)])
        matched_words == SubSeq(transcript_words, best.position + 1,
                                best.position + best.word_count)
        span == FindWordPositions(transcript, matched_words, best.position)
    IN  IF NothingToMatch(trigger_words, transcript_words) THEN NoMatch
        ELSE IF ~WithinThreshold(best, threshold) THEN NoMatch
        ELSE [matched |-> TRUE,
              distance |-> best.distance,
              confidence |-> confidence,
              matched_phrase |-> StripText(Slice(transcript, span[1], span[2])),
              match_start_pos |-> span[1],
              match_end_pos |-> span[2],
              command_text |-> StripText(Slice(transcript, span[2],
                                               Len(transcript))),
              alternative_index |-> alt_index]

\* enumerate(alternatives[1:], start=1): pairs of original index and entry
AlternativesWithIndices(alternatives) ==
    [k \in 1..(Len(alternatives) - 1) |->
        [idx |-> k, alt |-> alternatives[k + 1]]]

\* sorted(..., key=confidence, reverse=True): descending and stable, entries
\* of equal confidence keep their order.
RECURSIVE InsertByConfidence(_, _)
InsertByConfidence(sorted, entry) ==
    IF sorted = <<>> THEN <<entry>>
    ELSE IF Head(sorted).alt.confidence >= entry.alt.confidence
         THEN <<Head(sorted)>> \o InsertByConfidence(Tail(sorted), entry)
         ELSE <<entry>> \o sorted

\* The entries left in the order of the list.
InListOrder(entries) == entries

RECURSIVE SortedAlternatives(_)
SortedAlternatives(entries) ==
    IF entries = <<>> THEN <<>>
    ELSE InsertByConfidence(
             SortedAlternatives(SubSeq(entries, 1, Len(entries) - 1)),
             entries[Len(entries)])

\* The entries match_trigger skips
SkippedAlternative(alt) ==
    alt.transcript = <<>> \/ alt.confidence < MinAltConfidence

\* The loop of match_trigger over the sorted alternatives
RECURSIVE TryAlternatives(_, _, _)
TryAlternatives(threshold, normalized_trigger, entries) ==
    IF entries = <<>> THEN NoMatch
    ELSE LET entry == Head(entries)
             match == MatchSingleTranscript(threshold, normalized_trigger,
                          entry.alt.transcript, entry.alt.confidence,
                          entry.idx)
         IN  IF ~SkippedAlternative(entry.alt) /\ match.matched THEN match
             ELSE TryAlternatives(threshold, normalized_trigger,
                                  Tail(entries))

\* "if match: return match" after the primary transcript was tried
PrimaryMatchedExactly(match) == match.matched /\ match.distance = 0

PrimaryMatched(match) == match.matched

\* match_trigger. An entry of alternatives without a "transcript" or a
\* "confidence" key is the entry with the default the code reads for it, the
\* empty text and the confidence 0.
MatchTrigger(threshold, trigger_phrase, transcript, alternatives) ==
    LET normalized_trigger == NormalizeText(trigger_phrase)
        match == MatchSingleTranscript(threshold, normalized_trigger,
                                       transcript, PrimaryConfidence, 0)
        sorted_alternatives ==
            SortedAlternatives(AlternativesWithIndices(alternatives))
    IN  IF trigger_phrase = <<>> \/ transcript = <<>> THEN NoMatch
        ELSE IF PrimaryMatched(match) THEN match
        ELSE IF Len(alternatives) > 1
        THEN TryAlternatives(threshold, normalized_trigger,
                 SubSeq(sorted_alternatives, 1,
                        Min2(MaxAlternatives, Len(sorted_alternatives))))
        ELSE NoMatch

\* FuzzyWakeWordMatcher(threshold)
NewMatcher(threshold) ==
    [exists |-> TRUE, threshold |-> ClampThreshold(threshold)]

\* One call of match_trigger on the matcher
MatchTriggerCall(trigger_phrase, transcript, alternatives) ==
    /\ fuzzy_matcher.exists
    /\ matchInput' = [given |-> TRUE, trigger_phrase |-> trigger_phrase,
                      transcript |-> transcript,
                      alternatives |-> alternatives]
    /\ matchResult' = MatchTrigger(fuzzy_matcher.threshold, trigger_phrase,
                                   transcript, alternatives)
    /\ UNCHANGED <<callerVars, captureQ, utteranceQ, metrics, vad, cfgVars,
                   capVars, detVars, trVars, onErrorCalls, segVars,
                   rapidfuzz, attrs, service, fuzzy_matcher, constructed,
                   reconfigLog, dispatchVars, listenerVars, getVars>>

\* ------------------------------------------- the matcher on its own

\* The thresholds a matcher is constructed with: the valid ones, and some
\* below and above them.
ThresholdsBelow == 2
ThresholdsAbove == 3
ThresholdArgs ==
    (MIN_THRESHOLD - ThresholdsBelow)..(MAX_THRESHOLD + ThresholdsAbove)

\* The texts of the model, character by character
Bang == <<"!">>

HiBot == <<"h", "i", " ", "b", "o", "t">>

HiCommaBot == <<"H", "i", ",", " ", "b", "o", "t">>

Bot == <<"b", "o", "t">>

Dots == <<" ", ".", " ">>

HiBotGo == <<"h", "i", " ", "b", "o", "t", " ", "g", "o">>

OhHiBitGo == <<"o", "h", " ", "h", "i", " ", "b", "i", "t", " ", "g", "o">>

Hibot == <<"h", "i", "b", "o", "t">>

No == <<"n", "o">>

HiBotCased == <<"H", "i", ",", " ", " ", "B", "o", "t", "!", " ", "g", "o">>

\* Trigger phrases: empty, punctuation only, two words, the same with upper
\* case and punctuation, one word.
TriggerPhrases == { <<>>, Bang, HiBot, HiCommaBot, Bot }

\* Transcripts in which two windows are equally near "hi bot": "i bot" and
\* "h i bot"; "hi bo" and "hi bo t".
SplitHiBot == <<"h", " ", "i", " ", "b", "o", "t">>

HiBoT == <<"h", "i", " ", "b", "o", " ", "t">>

\* Transcripts: empty, white space and punctuation only, the trigger followed
\* by a command, one substitution away, one deletion away, far away, with
\* upper case, punctuation and doubled spaces.
Transcripts ==
    { <<>>, Dots, HiBotGo, OhHiBitGo, Hibot, No, HiBotCased, SplitHiBot,
      HiBoT }

Alt(text, confidence) == [transcript |-> text, confidence |-> confidence]

\* Lists of alternatives; the first entry stands for the primary transcript.
AlternativeLists ==
    { <<>>,
      <<Alt(No, 100)>>,
      <<Alt(No, 100), Alt(HiBotGo, 90)>>,
      <<Alt(No, 100), Alt(HiBotGo, 40)>>,
      <<Alt(No, 100), Alt(<<>>, 90), Alt(OhHiBitGo, 60), Alt(HiBotGo, 80)>>,
      <<Alt(No, 100), Alt(OhHiBitGo, 70), Alt(HiBotGo, 70)>>,
      <<Alt(OhHiBitGo, 90), Alt(HiBotGo, 95), Alt(Hibot, 75)>>,
      <<Alt(No, 100), Alt(No, 90), Alt(Dots, 80), Alt(No, 70), Alt(No, 60),
        Alt(HiBotGo, 55)>>,
      <<Alt(No, 100), Alt(<<>>, 90), Alt(No, 80), Alt(No, 70), Alt(No, 60),
        Alt(HiBotGo, 55)>> }

InitMatch ==
    /\ PipelineInit({<<>>}, {FALSE}, {FALSE})
    /\ rapidfuzz = TRUE
    /\ attrs = NoAttrs
    /\ service = Unconfigured
    /\ \E t \in ThresholdArgs :
          /\ fuzzy_matcher = NewMatcher(t)
          /\ constructed = [called |-> TRUE, threshold |-> t]
    /\ reconfigLog = <<>>
    /\ matchInput = NoMatchInput
    /\ matchResult = NoMatch
    /\ NoDispatch

\* match_trigger reads the matcher's threshold and its arguments and writes
\* nothing, so a call leaves nothing behind that a later call could read: a
\* behaviour of this specification makes one call.
NextMatch ==
    /\ ~matchInput.given
    /\ \E trigger_phrase \in TriggerPhrases, transcript \in Transcripts,
          alternatives \in AlternativeLists :
           MatchTriggerCall(trigger_phrase, transcript, alternatives)

SpecMatch == InitMatch /\ [][NextMatch]_vars

\* ---------------------------------------------------------- properties

\* C1: while the pipeline is running and the capture thread has not ended,
\* the capture thread's next step can be taken in every reachable state: the
\* loop test, the read of a frame the device holds, and the enqueue attempt,
\* whatever the two queues hold and wherever the transcription thread is.
C1_CaptureNeverWaits ==
    (running /\ capPc \in {"loop", "read", "put"}) =>
        /\ capPc = "loop" => ENABLED CaptureCheck
        /\ (capPc = "read" /\ framesRead < Len(device)) => ENABLED CaptureRead
        /\ capPc = "put" => ENABLED CapturePut

\* The capture thread has just dropped a frame on a full capture queue while
\* utterances wait in the utterance queue and the transcription thread is
\* inside on_transcript.
C1_Witness ==
    /\ running
    /\ capPc = "loop"
    /\ metrics.chunks_dropped >= 1
    /\ QueueFull(captureQ, CaptureQueueCap)
    /\ utteranceQ # <<>>
    /\ trPc = "callback"

\* C2: chunks_captured + chunks_dropped is the number of frames read whenever
\* the capture thread is between iterations, and one less while it holds a
\* frame it has read and not yet tried to enqueue.
C2_CapturedPlusDropped ==
    metrics.chunks_captured + metrics.chunks_dropped =
        IF capPc = "put" THEN framesRead - 1 ELSE framesRead

\* Frames were enqueued, a frame was dropped and a read has raised.
C2_Witness ==
    /\ capPc = "loop"
    /\ metrics.chunks_captured >= 2
    /\ metrics.chunks_dropped >= 1
    /\ readCalls > framesRead

\* The last element of a non-empty sequence.
Last(s) == s[Len(s)]

\* The chunks of the utterances of a log, one after the other.
RECURSIVE LoggedChunks(_)
LoggedChunks(log) ==
    IF log = <<>> THEN <<>>
    ELSE LoggedChunks(SubSeq(log, 1, Len(log) - 1)) \o Last(log).utt.chunks

\* The first n chunks of a stream.
StreamPrefix(st, n) == [k \in 1..n |-> StreamChunk(st, k)]

\* The streams of 5 silence, 10 speech and N silence chunks with the trailing
\* silence as long as the silence timeout.
SilenceClosedStream(st) ==
    /\ st.lead = 5
    /\ st.speech = 10
    /\ st.trail * st.gap >= SILENCE_TIMEOUT

\* The index of the first chunk of a stream whose timestamp is at least the
\* silence timeout after the last speech chunk's.
TimeoutIndex(st) ==
    LET last == StreamChunk(st, st.lead + st.speech).timestamp
        late(k) == StreamChunk(st, k).timestamp - last >= SILENCE_TIMEOUT
    IN  CHOOSE k \in 1..StreamLen(st) :
            late(k) /\ \A j \in 1..(k - 1) : ~late(j)

\* C3: on a stream of 5 silence, 10 speech and N silence chunks, N chunks
\* lasting at least the silence timeout, the segmenter has emitted nothing
\* before, and exactly one utterance from, the first chunk whose timestamp is
\* at least the silence timeout after the last speech chunk's; that utterance
\* is queued and counted and its end_time is that chunk's timestamp.
C3_OneUtteranceAtSilenceTimeout ==
    SilenceClosedStream(stream) =>
        /\ Len(emitLog) = IF pos >= TimeoutIndex(stream) THEN 1 ELSE 0
        /\ metrics.utterances_detected = Len(emitLog)
        /\ \A i \in 1..Len(emitLog) :
              /\ emitLog[i].queued
              /\ emitLog[i].utt.end_time =
                     StreamChunk(stream, TimeoutIndex(stream)).timestamp

\* The whole stream was consumed, chunks past the closing one included, and
\* the one utterance was emitted.
C3_Witness ==
    /\ SilenceClosedStream(stream)
    /\ pos = StreamLen(stream)
    /\ pos > TimeoutIndex(stream)
    /\ Len(emitLog) = 1
    /\ seg.state = "idle"

\* C4 as claimed: the start_time of every emitted utterance is the timestamp
\* of the earliest chunk of its audio.
C4_StartIsEarliestChunk ==
    \A i \in 1..Len(emitLog) :
        emitLog[i].utt.start_time = emitLog[i].utt.chunks[1].timestamp

\* The position of the first speech chunk among the chunks of an utterance.
FirstSpeech(chunks) ==
    CHOOSE k \in 1..Len(chunks) :
        /\ chunks[k].energy = LOUD
        /\ \A j \in 1..(k - 1) : chunks[j].energy # LOUD

\* C4 (amended): the start_time of every emitted utterance is the timestamp
\* of its first speech chunk; the chunks seeded from the padding buffer come
\* before that chunk in the audio, at most PaddingMaxLen - 1 of them, so the
\* earliest chunk of the audio is no later than start_time.
C4_StartIsFirstSpeechChunk ==
    \A i \in 1..Len(emitLog) :
        LET u == emitLog[i].utt
            k == FirstSpeech(u.chunks)
        IN  /\ \E j \in 1..Len(u.chunks) : u.chunks[j].energy = LOUD
            /\ u.start_time = u.chunks[k].timestamp
            /\ k <= PaddingMaxLen
            /\ u.chunks[1].timestamp <= u.start_time
            /\ u.start_time <= u.end_time

\* An utterance was emitted whose audio begins with padding chunks, earlier
\* than its start_time.
C4_Witness ==
    \E i \in 1..Len(emitLog) :
        /\ emitLog[i].utt.chunks[1].timestamp < emitLog[i].utt.start_time
        /\ FirstSpeech(emitLog[i].utt.chunks) = PaddingMaxLen

\* The streams of speech chunks only.
AllSpeechStream(st) == st.lead = 0 /\ st.trail = 0

\* C5: on a stream of speech chunks only, every utterance ends at the first
\* chunk whose timestamp is at least the maximum duration after the
\* utterance's speech start, and the chunk after it begins the next one: the
\* emitted utterances followed by the utterance in progress are the chunks
\* consumed so far, each once and in order, and the segmenter is idle only
\* right after an emission.
C5_MaxDurationSplitsSpeech ==
    (AllSpeechStream(stream) /\ pos >= 1) =>
        /\ LoggedChunks(emitLog) \o seg.utterance_chunks =
               StreamPrefix(stream, pos)
        /\ \A i \in 1..Len(emitLog) :
              LET u == emitLog[i].utt
              IN  /\ u.start_time = u.chunks[1].timestamp
                  /\ u.end_time = Last(u.chunks).timestamp
                  /\ u.end_time - u.start_time >= MAX_SPEECH_DURATION
                  /\ \A j \in 1..(Len(u.chunks) - 1) :
                        u.chunks[j].timestamp - u.start_time
                            < MAX_SPEECH_DURATION
        /\ seg.state = "speaking" =>
              /\ seg.utterance_chunks # <<>>
              /\ seg.speech_start_time = seg.utterance_chunks[1].timestamp
              /\ StreamChunk(stream, pos).timestamp - seg.speech_start_time
                     < MAX_SPEECH_DURATION
        /\ seg.state = "idle" =>
              /\ emitLog # <<>>
              /\ Last(emitLog).utt.end_time =
                     StreamChunk(stream, pos).timestamp

\* Speech went on past the maximum duration: one utterance was emitted and
\* the next speech chunk has begun a new one.
C5_Witness ==
    /\ AllSpeechStream(stream)
    /\ Len(emitLog) = 1
    /\ seg.state = "speaking"
    /\ Len(seg.utterance_chunks) = 1
    /\ seg.utterance_chunks[1] = StreamChunk(stream, pos)

\* The utterances of a log that were put in the utterance queue.
RECURSIVE QueuedUtterances(_)
QueuedUtterances(log) ==
    IF log = <<>> THEN <<>>
    ELSE LET rest == QueuedUtterances(SubSeq(log, 1, Len(log) - 1))
         IN  IF Last(log).queued THEN Append(rest, Last(log).utt) ELSE rest

\* Whether s is t with some elements left out.
RECURSIVE IsSubseq(_, _)
IsSubseq(s, t) ==
    IF s = <<>> THEN TRUE
    ELSE IF t = <<>> THEN FALSE
    ELSE IF Head(s) = Head(t) THEN IsSubseq(Tail(s), Tail(t))
    ELSE IsSubseq(s, Tail(t))

\* C6: the utterances handed to the recognizer or to the on_utterance
\* handler, followed by those still in the utterance queue, are the
\* utterances the segmenter enqueued, in the order it segmented them (each
\* later in time than the one before), and the utterances passed to
\* on_transcript are among those handed to the recognizer, in the same order.
C6_HandedOverInSegmentedOrder ==
    /\ (recognizeLog \o handlerLog) \o utteranceQ = QueuedUtterances(emitLog)
    /\ \A i \in 1..(Len(emitLog) - 1) :
          emitLog[i].utt.end_time < emitLog[i + 1].utt.start_time
    /\ IsSubseq(transcriptLog, recognizeLog)

\* Three utterances were segmented and queued, all three reached the
\* recognizer and at least two of them the callback.
C6_Witness ==
    /\ Len(recognizeLog) = 3
    /\ Len(transcriptLog) >= 2
    /\ dropWarnings = 0

\* C7: the step the detect thread takes with a closed utterance when the
\* utterance queue is full can always be taken, leaves the queue and
\* utterances_detected as they were, logs one warning, records the utterance
\* as not queued, and leaves the segmenter idle at the top of its loop with
\* no utterance in hand.
C7_FullQueueDropsUtterance ==
    /\ [](detPc = "emit" /\ QueueFull(utteranceQ, UtteranceQueueCap)
            => ENABLED DetectDrop)
    /\ [][(/\ detPc = "emit"
           /\ QueueFull(utteranceQ, UtteranceQueueCap)
           /\ detPc' # detPc)
          => /\ utteranceQ' = utteranceQ
             /\ metrics' = metrics
             /\ dropWarnings' = dropWarnings + 1
             /\ emitLog' = Append(emitLog, [utt |-> detUtt, queued |-> FALSE])
             /\ seg' = [NewSegmenter EXCEPT
                           !.speech_start_time = seg.speech_start_time,
                           !.last_speech_time = seg.last_speech_time]
             /\ detUtt' = NoUtterance
             /\ detPc' = "loop"]_vars

\* An utterance was dropped on a full utterance queue and the detect thread
\* is back in its loop, the segmenter idle.
C7_Witness ==
    /\ dropWarnings >= 1
    /\ ~Last(emitLog).queued
    /\ QueueFull(utteranceQ, UtteranceQueueCap)
    /\ metrics.utterances_detected = Len(QueuedUtterances(emitLog))
    /\ seg.state = "idle"
    /\ detPc \in {"loop", "get"}

\* C8: whatever way recognize_google, the on_utterance handler or
\* on_transcript ends, the transcription thread goes on to on_transcript or
\* back to the top of its loop, never out of it; a running pipeline's
\* transcription thread has not ended and can take the next queued utterance.
C8_OutcomesKeepLoopRunning ==
    /\ [](running => /\ trPc # "done"
                     /\ trPc = "loop" => ENABLED TranscribeCheck
                     /\ (trPc = "get" /\ utteranceQ # <<>>)
                            => ENABLED TranscribeGet)
    /\ [][(trPc \in {"recognize", "handler", "result", "callback"})
          => trPc' \in {trPc, "result", "callback", "loop"}]_vars

\* After an utterance whose call raised and an utterance whose callback
\* raised, the thread has taken a third utterance.
C8_Witness ==
    /\ ~onUtterance
    /\ metrics.transcription_errors >= 1
    /\ onErrorCalls.transcribe > metrics.transcription_errors
    /\ Len(recognizeLog) = 3
    /\ trPc = "recognize"

\* C9: on the default path the step that follows the recognizer's call adds
\* one to utterances_transcribed and leaves transcription_errors when the
\* call returned; changes no counter and calls on_error not at all when it
\* raised sr.UnknownValueError; adds one to transcription_errors, leaves
\* utterances_transcribed and calls on_error once otherwise. No other step
\* changes either counter, and on_error is called from the transcription
\* thread nowhere else but for an exception of on_transcript.
C9_OneOutcomePerUtterance ==
    [][/\ (~onUtterance /\ trPc = "result" /\ trPc' # trPc) =>
            /\ trOutcome \in CallOutcomes
            /\ trOutcome = "ok" =>
                  /\ metrics'.utterances_transcribed =
                         metrics.utterances_transcribed + 1
                  /\ metrics'.transcription_errors =
                         metrics.transcription_errors
                  /\ onErrorCalls' = onErrorCalls
            /\ trOutcome = "unknown" =>
                  /\ metrics' = metrics
                  /\ onErrorCalls' = onErrorCalls
            /\ trOutcome \in {"request", "other"} =>
                  /\ metrics'.transcription_errors =
                         metrics.transcription_errors + 1
                  /\ metrics'.utterances_transcribed =
                         metrics.utterances_transcribed
                  /\ onErrorCalls'.transcribe = onErrorCalls.transcribe + 1
       /\ ~(trPc = "result" /\ trPc' # trPc) =>
            /\ metrics'.utterances_transcribed =
                   metrics.utterances_transcribed
            /\ metrics'.transcription_errors = metrics.transcription_errors
       /\ ~(trPc \in {"result", "callback"} /\ trPc' # trPc) =>
            onErrorCalls'.transcribe = onErrorCalls.transcribe]_vars

\* Three utterances were processed on the default path: one was transcribed,
\* one failed and one was not recognized.
C9_Witness ==
    /\ ~onUtterance
    /\ Len(recognizeLog) = 3
    /\ trPc = "loop"
    /\ metrics.utterances_transcribed = 1
    /\ metrics.transcription_errors = 1
    /\ onErrorCalls.transcribe = 1

\* C10: with an on_utterance handler configured, every utterance taken from
\* the queue went to the handler, recognize_google and on_transcript were
\* never called, and utterances_transcribed is 0.
C10_HandlerReplacesRecognition ==
    onUtterance =>
        /\ handlerLog \o utteranceQ = QueuedUtterances(emitLog)
        /\ recognizeLog = <<>>
        /\ transcriptLog = <<>>
        /\ trPc \notin {"recognize", "callback"}
        /\ metrics.utterances_transcribed = 0

\* A handler and a transcript callback are both configured; the handler has
\* returned for one utterance, raised for another, and holds a third.
C10_Witness ==
    /\ onUtterance
    /\ onTranscript
    /\ Len(handlerLog) = 3
    /\ trPc = "handler"
    /\ metrics.transcription_errors = 1

\* C11: in a running pipeline the capture thread has ended exactly when its
\* last read raised OSError; every read that raised was reported by one call
\* of on_error, and after any other exception the thread is back at the top
\* of its loop; once the capture thread has ended, the detect and transcribe
\* threads have not, and the chunks and utterances in the two queues are
\* eventually all taken.
C11_OnlyOSErrorEndsCapture ==
    /\ [](running =>
            /\ capPc = "done" <=> capError = "OSError"
            /\ onErrorCalls.capture = readCalls - framesRead
            /\ capPc = "done" => (detPc # "done" /\ trPc # "done"))
    /\ [][(running /\ readCalls' = readCalls + 1 /\ framesRead' = framesRead)
          => /\ capError' \in {"OSError", "Exception"}
             /\ onErrorCalls'.capture = onErrorCalls.capture + 1
             /\ capPc' = IF capError' = "OSError" THEN "done" ELSE "loop"]_vars
    /\ (running /\ capPc = "done")
           ~> (captureQ = <<>> /\ utteranceQ = <<>>)

\* The device failed while a chunk and an utterance were waiting in the
\* queues: the capture thread has ended after one report, the others run.
C11_Witness ==
    /\ running
    /\ capPc = "done"
    /\ capError = "OSError"
    /\ onErrorCalls.capture = 1
    /\ captureQ # <<>>
    /\ utteranceQ # <<>>
    /\ detPc \notin {"none", "done"}
    /\ trPc \notin {"none", "done"}

\* Everything but the record of how the last lifecycle call ended.
PipelineState ==
    <<running, stopEvent, callerPc, captureQ, utteranceQ, metrics, cfgVars,
      capVars, detVars, trVars, onErrorCalls, segVars>>

\* C12: start() cannot start threads while the pipeline is running and
\* stop() cannot stop it while it is not; a start() that raises is a call on
\* a running pipeline and a stop() that returns at once is a call on a
\* pipeline that is not running, and neither changes the running flag, the
\* stop event, the queues, the threads or anything else; after a stop() has
\* returned the next stop() is such a call.
C12_WrongStateCallsChangeNothing ==
    /\ [](running => ~ENABLED Start)
    /\ [](~running => ~ENABLED StopBegin)
    /\ []((callerPc = "idle" /\ lifecycle \in {"stopped", "stop_returned"})
             => (~running /\ ENABLED StopWhileStopped))
    /\ [][(lifecycle' = "start_raised" /\ lifecycle # "start_raised")
          => (running /\ PipelineState' = PipelineState)]_vars
    /\ [][(lifecycle' = "stop_returned" /\ lifecycle # "stop_returned")
          => (~running /\ PipelineState' = PipelineState)]_vars

\* stop() was called a second time, and returned at once, while a thread of
\* the stopped pipeline was still alive and a pill was in a queue.
C12_Witness ==
    /\ lifecycle = "stop_returned"
    /\ stopEvent
    /\ ~ThreadsEnded
    /\ \E i \in 1..Len(captureQ) : captureQ[i] = PoisonChunk

\* Whether the capture thread is inside a device read that neither returns
\* nor raises.
ReadPending == capPc = "read" /\ ~ENABLED Capture

C14_AliveThreadReported ==
    [][(callerPc = "join" /\ callerPc' = "idle" /\ ~ThreadsEnded')
       => (onErrorCalls' # onErrorCalls \/ dropWarnings' # dropWarnings)]_vars

Absent == [has |-> FALSE]
Value(v) == [has |-> TRUE, value |-> v]

\* attrs.get(key, default)
AttrGet(entry, default) == IF entry.has THEN entry.value ELSE default

\* The numbers of a config are floating point; the model holds a number as
\* its count of halves, so that 4 is the number 2 and 11 is 5.5.
Halves(n) == 2 * n

\* int(x): the integer part, rounded towards zero
IntOf(halves) ==
    IF halves >= 0 THEN halves \div 2 ELSE -((-halves) \div 2)

DEFAULT_FUZZY_THRESHOLD == 2

\* "Validate threshold": a threshold outside 0..5 is replaced by the default.
UnvalidatedThreshold(threshold) == threshold

ValidatedThreshold(threshold) ==
    IF ~(MIN_THRESHOLD <= threshold /\ threshold <= MAX_THRESHOLD)
    THEN DEFAULT_FUZZY_THRESHOLD
    ELSE threshold

\* bool(x) of a config's flag
BoolOf(x) == x

\* reconfigure, as far as trigger dispatch goes: the attributes are read,
\* the command list emptied and the one-shot arm cleared; then the threshold
\* is validated, and the matcher made when fuzzy matching is enabled; the
\* ImportError of a missing rapidfuzz is caught and turns fuzzy matching off.
\* The three trigger phrases are the same in every config of the model.
ReconfigureTo(fuzzy_matching, fuzzy_threshold, listen, trigger_all, length) ==
    LET enabled == AttrGet(fuzzy_matching, FALSE)
        read == IntOf(AttrGet(fuzzy_threshold,
                              Halves(DEFAULT_FUZZY_THRESHOLD)))
        threshold == ValidatedThreshold(read)
        warned == IF threshold # read THEN <<"Invalid fuzzy threshold">>
                  ELSE <<>>
    IN  /\ attrs' = [given |-> TRUE,
                     listen_trigger_fuzzy_matching |-> fuzzy_matching,
                     listen_trigger_fuzzy_threshold |-> fuzzy_threshold,
                     listen |-> listen,
                     listen_trigger_all |-> trigger_all,
                     listen_command_buffer_length |-> length]
        /\ should_listen' = BoolOf(AttrGet(listen, FALSE))
        /\ listen_trigger_all' = BoolOf(AttrGet(trigger_all, FALSE))
        /\ listen_command_buffer_length' =
              IntOf(AttrGet(length, Halves(DEFAULT_BUFFER_LENGTH)))
        /\ command_list' = <<>>
        /\ trigger_active' = FALSE
        /\ active_trigger_type' = ""
        /\ fired' = NothingFired
        /\ service' = [configured |-> TRUE,
                       listen_trigger_fuzzy_matching |-> enabled /\ rapidfuzz,
                       listen_trigger_fuzzy_threshold |-> threshold]
        /\ IF enabled /\ rapidfuzz
           THEN /\ fuzzy_matcher' = NewMatcher(threshold)
                /\ constructed' = [called |-> TRUE, threshold |-> threshold]
                /\ reconfigLog' = warned \o <<"Fuzzy matching enabled">>
           ELSE /\ fuzzy_matcher' = None
                /\ constructed' = constructed
                /\ reconfigLog' =
                      IF enabled
                      THEN warned \o <<"Failed to initialize fuzzy matcher",
                                       "Falling back to regex matching">>
                      ELSE warned
        /\ UNCHANGED <<callerVars, captureQ, utteranceQ, metrics, vad,
                       cfgVars, capVars, detVars, trVars, onErrorCalls,
                       segVars, rapidfuzz, matchInput, matchResult,
                       listenerPc, inserted, getVars>>

\* reconfigure with a config that names the fuzzy attributes alone
Reconfigure(fuzzy_matching, fuzzy_threshold) ==
    ReconfigureTo(fuzzy_matching, fuzzy_threshold, Absent, Absent, Absent)

\* The service matches fuzzily when fuzzy matching is on and it has a matcher.
FuzzyMatchingOn ==
    /\ service.configured
    /\ service.listen_trigger_fuzzy_matching
    /\ fuzzy_matcher.exists

\* The service's call of match_trigger on its matcher
FuzzyMatch(trigger_phrase, transcript, alternatives) ==
    /\ FuzzyMatchingOn
    /\ MatchTriggerCall(trigger_phrase, transcript, alternatives)

\* The configs of the model: fuzzy matching absent, off or on; the threshold
\* absent or a number from -2 to 7 in steps of one half.
HalvesBelow == 4
HalvesAbove == 4
FuzzyMatchingAttrs == {Absent, Value(FALSE), Value(TRUE)}
FuzzyThresholdAttrs ==
    {Absent} \cup { Value(h) : h \in (Halves(MIN_THRESHOLD) - HalvesBelow)
                                      ..(Halves(MAX_THRESHOLD) + HalvesAbove) }

\* What the service hears: the trigger at distance 0, 1 and 5.
HeardTranscripts == { HiBotGo, OhHiBitGo, No }

InitSvc ==
    /\ PipelineInit({<<>>}, {FALSE}, {FALSE})
    /\ rapidfuzz \in BOOLEAN
    /\ attrs = NoAttrs
    /\ service = Unconfigured
    /\ fuzzy_matcher = None
    /\ constructed = NotConstructed
    /\ reconfigLog = <<>>
    /\ matchInput = NoMatchInput
    /\ matchResult = NoMatch
    /\ NoDispatch

NextSvc ==
    \/ \E fuzzy_matching \in FuzzyMatchingAttrs,
          fuzzy_threshold \in FuzzyThresholdAttrs :
           Reconfigure(fuzzy_matching, fuzzy_threshold)
    \/ \E transcript \in HeardTranscripts :
           FuzzyMatch(HiBot, transcript, <<>>)

SpecSvc == InitSvc /\ [][NextSvc]_vars

\* ------------------------------------------------------ trigger dispatch

Hi == <<"h", "i">>

Oh == <<"o", "h">>

OhBotGo == <<"o", "h", " ", "b", "o", "t", " ", "g", "o">>

\* The phrases of the three categories, the same in every config of the
\* model.
listen_trigger_say == Hi
listen_trigger_completion == Oh
listen_trigger_command == Bot

\* The categories in the order both paths try them.
TriggerTypes == <<"say", "completion", "command">>

TriggerPhrase(trigger_type) ==
    CASE trigger_type = "say" -> listen_trigger_say
      [] trigger_type = "completion" -> listen_trigger_completion
      [] trigger_type = "command" -> listen_trigger_command

\* re.search(".*" + phrase, text, re.IGNORECASE): the phrase occurs in the
\* text, letter case apart.
RegexSearch(phrase, text) ==
    \E k \in 0..Len(text) : OccursAt(LowerText(text), LowerText(phrase), k)

\* re.sub(".*" + phrase + r"\s+", "", text, flags=re.IGNORECASE): the text
\* up to and including the last occurrence of the phrase that white space
\* follows, and that white space, are removed; a text with no such
\* occurrence is returned whole.
RegexSub(phrase, text) ==
    LET ends == { k + Len(phrase) : k \in
                    { j \in 0..Len(text) :
                        /\ OccursAt(LowerText(text), LowerText(phrase), j)
                        /\ j + Len(phrase) < Len(text)
                        /\ text[j + Len(phrase) + 1] \in WhiteSpace } }
    IN  IF ends = {} THEN text
        ELSE LET last == CHOOSE e \in ends : \A o \in ends : o <= e
             IN  StripLeft(SubSeq(text, last + 1, Len(text)))

EveryTypeChecked(trigger_type) == TRUE

\* _check_fuzzy_triggers' should_check: continuous listening, or the
\* one-shot arm of this category.
ShouldCheck(trigger_type) ==
    should_listen \/ (trigger_active /\ active_trigger_type = trigger_type)

\* The results of the calls of match_trigger that _check_fuzzy_triggers can
\* make for a transcript, one for each category that is checked.
\* match_trigger reads nothing that the loop writes, so the results are the
\* same whether they are computed inside the loop or before it; a service
\* that does not match fuzzily makes no call.
TriggerMatches(heard, alternatives) ==
    [i \in 1..Len(TriggerTypes) |->
        IF FuzzyMatchingOn /\ heard # <<>> /\ ShouldCheck(TriggerTypes[i])
        THEN MatchTrigger(fuzzy_matcher.threshold,
                          TriggerPhrase(TriggerTypes[i]), heard, alternatives)
        ELSE NoMatch]

\* _check_fuzzy_triggers: the loop returns at the first category, in order,
\* that is checked and matches; the match carries its category.
CheckFuzzyTriggers(matches) ==
    LET matching == { i \in 1..Len(TriggerTypes) :
                        ShouldCheck(TriggerTypes[i]) /\ matches[i].matched }
    IN  IF matching = {} THEN NoMatch
        ELSE LET first == CHOOSE i \in matching : \A j \in matching : i <= j
             IN  [matched |-> TRUE, trigger_type |-> TriggerTypes[first],
                  command_text |-> matches[first].command_text]

\* What a callback does with a transcript: the category that fires ("all"
\* for the whole transcript taken as a command, "none" for nothing), the
\* text handed to it, whether the one-shot arm is cleared and whether the
\* closer of background listening is called.
NoTriggerClosing(path, closed) ==
    [category |-> "none", payload |-> <<>>, path |-> path, disarm |-> FALSE,
     closed |-> TRUE]

NoTrigger(path, closed) ==
    [category |-> "none", payload |-> <<>>, path |-> path, disarm |-> FALSE,
     closed |-> closed]

HandleWithoutDisarm(match) ==
    [category |-> match.trigger_type, payload |-> match.command_text,
     path |-> "fuzzy", disarm |-> FALSE, closed |-> ~should_listen]

\* _handle_trigger_match
HandleTriggerMatch(match) ==
    [category |-> match.trigger_type, payload |-> match.command_text,
     path |-> "fuzzy", disarm |-> TRUE, closed |-> ~should_listen]

\* The condition of a branch of the regex chain
RegexFires(trigger_type, heard) ==
    \/ should_listen /\ RegexSearch(TriggerPhrase(trigger_type), heard)
    \/ trigger_active /\ active_trigger_type = trigger_type

LastRegexBranch(branches) ==
    CHOOSE i \in branches : \A j \in branches : j <= i

\* The branch an if/elif chain takes: the first whose condition holds
FirstRegexBranch(branches) ==
    CHOOSE i \in branches : \A j \in branches : i <= j

\* The if/elif chain of the regex path on a transcript that is not empty:
\* the first branch whose condition holds, the whole transcript when none
\* does and listen_trigger_all is on.
RegexTriggers(heard, closed) ==
    LET branches == { i \in 1..Len(TriggerTypes) :
                        RegexFires(TriggerTypes[i], heard) }
    IN  IF branches # {}
        THEN LET trigger_type == TriggerTypes[FirstRegexBranch(branches)]
             IN  [category |-> trigger_type,
                  payload |-> RegexSub(TriggerPhrase(trigger_type), heard),
                  path |-> "regex", disarm |-> TRUE, closed |-> closed]
        ELSE IF should_listen /\ listen_trigger_all
        THEN [category |-> "all", payload |-> heard, path |-> "regex",
              disarm |-> FALSE, closed |-> closed]
        ELSE NoTrigger("regex", closed)

\* listen_callback, given what speech-to-text returned
ListenCallbackOutcome(heard, matches) ==
    IF FuzzyMatchingOn
    THEN IF heard # <<>>
         THEN LET match == CheckFuzzyTriggers(matches)
              IN  IF match.matched THEN HandleTriggerMatch(match)
                  ELSE NoTrigger("fuzzy", FALSE)
         ELSE NoTrigger("fuzzy", FALSE)
    ELSE IF heard # <<>> THEN RegexTriggers(heard, ~should_listen)
         ELSE NoTrigger("regex", FALSE)

\* vosk_vad_callback, given the text Vosk recognized
VoskVadCallbackOutcome(text, matches) ==
    LET match == IF text # <<>> /\ FuzzyMatchingOn
                 THEN CheckFuzzyTriggers(matches)
                 ELSE NoMatch
    IN  IF match.matched THEN HandleTriggerMatch(match)
        ELSE IF text # <<>> THEN RegexTriggers(text, FALSE)
        ELSE NoTrigger("regex", FALSE)

\* A command of the command list; the number tells two commands of the same
\* text apart and is not in the program.
Command(text, id) == [text |-> text, id |-> id]

MaxInserts == 3

Inserts(outcome) == outcome.category \in {"command", "all"}

\* A transcript callback on the listener thread, up to and including its
\* insert into the command list; the del that follows is Truncate.
Dispatched(callback, heard, alternatives, outcome) ==
    /\ service.configured
    /\ listenerPc = "idle"
    /\ Inserts(outcome) => inserted < MaxInserts
    /\ trigger_active' = IF outcome.disarm THEN FALSE ELSE trigger_active
    /\ IF Inserts(outcome)
       THEN /\ command_list' =
                  <<Command(outcome.payload, inserted + 1)>> \o command_list
            /\ inserted' = inserted + 1
            /\ listenerPc' = "truncate"
       ELSE UNCHANGED <<command_list, inserted, listenerPc>>
    /\ fired' = [called |-> TRUE, tick |-> ~fired.tick,
                 callback |-> callback, heard |-> heard,
                 alternatives |-> alternatives,
                 category |-> outcome.category, payload |-> outcome.payload,
                 path |-> outcome.path, closed |-> outcome.closed,
                 trigger_active |-> trigger_active,
                 active_trigger_type |-> active_trigger_type]
    /\ UNCHANGED <<callerVars, captureQ, utteranceQ, metrics, vad, cfgVars,
                   capVars, detVars, trVars, onErrorCalls, segVars,
                   rapidfuzz, attrs, service, fuzzy_matcher, constructed,
                   reconfigLog, matchInput, matchResult, should_listen,
                   listen_trigger_all, listen_command_buffer_length,
                   active_trigger_type, getVars>>

ListenCallback(heard, alternatives) ==
    \E matches \in {TriggerMatches(heard, alternatives)} :
        \E outcome \in {ListenCallbackOutcome(heard, matches)} :
            Dispatched("listen_callback", heard, alternatives, outcome)

\* Vosk gives no alternatives.
VoskVadCallback(text) ==
    \E matches \in {TriggerMatches(text, <<>>)} :
        \E outcome \in {VoskVadCallbackOutcome(text, matches)} :
            Dispatched("vosk_vad_callback", text, <<>>, outcome)

KeepAll(list, k) == list

\* del list[k:]
DelFrom(list, k) ==
    IF k >= 0 THEN SubSeq(list, 1, Min2(k, Len(list)))
    ELSE SubSeq(list, 1, Max(0, Len(list) + k))

\* del self.command_list[self.listen_command_buffer_length :]
Truncate ==
    /\ listenerPc = "truncate"
    /\ command_list' = DelFrom(command_list, listen_command_buffer_length)
    /\ listenerPc' = "idle"
    /\ UNCHANGED <<callerVars, captureQ, utteranceQ, metrics, vad, cfgVars,
                   capVars, detVars, trVars, onErrorCalls, segVars,
                   rapidfuzz, attrs, service, fuzzy_matcher, constructed,
                   reconfigLog, matchInput, matchResult, should_listen,
                   listen_trigger_all, listen_command_buffer_length,
                   trigger_active, active_trigger_type, inserted, fired,
                   getVars>>

\* listen_trigger with one of the three types; any other type raises and
\* changes nothing.
ListenTrigger(type) ==
    /\ service.configured
    /\ type \in {"command", "completion", "say"}
    /\ active_trigger_type' = type
    /\ trigger_active' = TRUE
    /\ UNCHANGED <<callerVars, captureQ, utteranceQ, metrics, vad, cfgVars,
                   capVars, detVars, trVars, onErrorCalls, segVars,
                   rapidfuzz, attrs, service, fuzzy_matcher, constructed,
                   reconfigLog, matchInput, matchResult, should_listen,
                   listen_trigger_all, listen_command_buffer_length,
                   command_list, listenerVars, getVars>>

\* The last n entries of a list
LastCommands(list, n) ==
    SubSeq(list, Len(list) - Min2(n, Len(list)) + 1, Len(list))

\* list[0:n] for 0 <= n
FirstCommands(list, n) == SubSeq(list, 1, Min2(n, Len(list)))

\* del list[0:n] for 0 <= n
DelFirst(list, n) == SubSeq(list, Min2(n, Len(list)) + 1, Len(list))

CommandIds(list) == { list[i].id : i \in 1..Len(list) }

\* get_commands, its slice: to_return = self.command_list[0:number]
GetCommandsSlice(n) ==
    /\ service.configured
    /\ getPc = "idle"
    /\ number' = n
    /\ to_return' = FirstCommands(command_list, n)
    /\ getPc' = "del"
    /\ lastGet' = [called |-> TRUE, done |-> FALSE, number |-> n,
                   before |-> command_list,
                   returned |-> FirstCommands(command_list, n),
                   at_del |-> <<>>, removed |-> <<>>, again |-> FALSE,
                   raced |-> lastGet.raced]
    /\ UNCHANGED <<callerVars, captureQ, utteranceQ, metrics, vad, cfgVars,
                   capVars, detVars, trVars, onErrorCalls, segVars,
                   rapidfuzz, attrs, service, fuzzy_matcher, constructed,
                   reconfigLog, matchInput, matchResult, dispatchVars,
                   listenerVars, returned>>

\* get_commands, its del and return: del self.command_list[0:number]
GetCommandsDel ==
    /\ getPc = "del"
    /\ command_list' = DelFirst(command_list, number)
    /\ getPc' = "idle"
    /\ returned' = returned \cup CommandIds(to_return)
    /\ lastGet' = [lastGet EXCEPT
                     !.done = TRUE,
                     !.at_del = command_list,
                     !.removed = FirstCommands(command_list, number),
                     !.again = CommandIds(to_return) \cap returned # {},
                     !.raced = lastGet.raced
                                  \/ command_list # lastGet.before]
    /\ UNCHANGED <<callerVars, captureQ, utteranceQ, metrics, vad, cfgVars,
                   capVars, detVars, trVars, onErrorCalls, segVars,
                   rapidfuzz, attrs, service, fuzzy_matcher, constructed,
                   reconfigLog, matchInput, matchResult, should_listen,
                   listen_trigger_all, listen_command_buffer_length,
                   trigger_active, active_trigger_type, listenerVars,
                   number, to_return>>

\* ------------------------------------------- the dispatcher on its own

\* The configs of the dispatcher's model: fuzzy matching off or on at the
\* threshold 1, continuous listening off or on, listen_trigger_all absent
\* or on, and a command list of one entry.
DispatchThreshold == 1
DispatchBufferLength == 1
DispatchFuzzyAttrs == {Value(FALSE), Value(TRUE)}
ListenAttrs == {Value(FALSE), Value(TRUE)}
TriggerAllAttrs == {Absent, Value(TRUE)}

\* What speech-to-text returns: a transcript with no alternatives, or the
\* alternatives with the transcript as their first.
SttResult(heard, alternatives) == [heard |-> heard, alternatives |-> alternatives]

SttResults ==
    { SttResult(<<>>, <<>>),
      SttResult(OhBotGo, <<Alt(OhBotGo, 90)>>),
      SttResult(No, <<>>),
      SttResult(No, <<Alt(No, 90), Alt(HiBotGo, 80)>>) }

VoskTexts == { OhBotGo, Hibot, No }

InitDispatch ==
    /\ PipelineInit({<<>>}, {FALSE}, {FALSE})
    /\ NoService

ReconfigureDispatch ==
    \E fuzzy_matching \in DispatchFuzzyAttrs, listen \in ListenAttrs,
       trigger_all \in TriggerAllAttrs :
        ReconfigureTo(fuzzy_matching, Value(Halves(DispatchThreshold)),
                      listen, trigger_all,
                      Value(Halves(DispatchBufferLength)))

NextDispatch ==
    \/ ReconfigureDispatch
    \/ \E type \in {"say", "completion", "command"} : ListenTrigger(type)
    \/ \E stt \in SttResults : ListenCallback(stt.heard, stt.alternatives)
    \/ \E text \in VoskTexts : VoskVadCallback(text)
    \/ Truncate

SpecDispatch == InitDispatch /\ [][NextDispatch]_vars

\* ------------------------------------------- the command list on its own

\* Continuous listening with listen_trigger_all and a command list of two
\* entries, fuzzy matching off or on at the threshold 0: the state a
\* reconfigure with such a config leaves.
BufferLength == 2
BufferThreshold == 0
TakeNumbers == 1..2

BotGo == <<"b", "o", "t", " ", "g", "o">>

BufferTexts == { No, BotGo }

InitBuffer ==
    /\ PipelineInit({<<>>}, {FALSE}, {FALSE})
    /\ rapidfuzz = TRUE
    /\ \E enabled \in BOOLEAN :
          /\ attrs = [given |-> TRUE,
                      listen_trigger_fuzzy_matching |-> Value(enabled),
                      listen_trigger_fuzzy_threshold |->
                          Value(Halves(BufferThreshold)),
                      listen |-> Value(TRUE),
                      listen_trigger_all |-> Value(TRUE),
                      listen_command_buffer_length |->
                          Value(Halves(BufferLength))]
          /\ service = [configured |-> TRUE,
                        listen_trigger_fuzzy_matching |-> enabled,
                        listen_trigger_fuzzy_threshold |-> BufferThreshold]
          /\ fuzzy_matcher = IF enabled THEN NewMatcher(BufferThreshold)
                             ELSE None
          /\ constructed = IF enabled
                           THEN [called |-> TRUE,
                                 threshold |-> BufferThreshold]
                           ELSE NotConstructed
          /\ reconfigLog = IF enabled THEN <<"Fuzzy matching enabled">>
                           ELSE <<>>
    /\ matchInput = NoMatchInput
    /\ matchResult = NoMatch
    /\ should_listen = TRUE
    /\ listen_trigger_all = TRUE
    /\ listen_command_buffer_length = BufferLength
    /\ command_list = <<>>
    /\ trigger_active = FALSE
    /\ active_trigger_type = ""
    /\ listenerPc = "idle"
    /\ getPc = "idle"
    /\ number = 0
    /\ to_return = <<>>
    /\ inserted = 0
    /\ fired = NothingFired
    /\ returned = {}
    /\ lastGet = NothingTaken

NextBuffer ==
    \/ \E text \in BufferTexts : ListenCallback(text, <<>>)
    \/ Truncate
    \/ \E n \in TakeNumbers : GetCommandsSlice(n)
    \/ GetCommandsDel

SpecBuffer == InitBuffer /\ [][NextBuffer]_vars

\* ------------------------------------------------ matcher properties

Max2(a, b) == IF a >= b THEN a ELSE b

\* C19: for every integer t a matcher is constructed with, the matcher's
\* threshold is max(0, min(5, t)), and no call of match_trigger changes it.
C19_ThresholdClampedAndFixed ==
    /\ [](constructed.called =>
             /\ fuzzy_matcher.exists
             /\ fuzzy_matcher.threshold
                    = Max2(0, Min2(5, constructed.threshold)))
    /\ [][matchInput' # matchInput => fuzzy_matcher' = fuzzy_matcher]_vars

C19_Witness ==
    /\ constructed.called
    /\ constructed.threshold < 0
    /\ fuzzy_matcher.threshold = 0
    /\ matchInput.given
    /\ matchResult.matched

\* The transcript a result was computed from: the primary transcript for the
\* alternative index 0, else the entry of the alternatives at that index.
SourceTranscript(input, result) ==
    IF result.alternative_index = 0 THEN input.transcript
    ELSE input.alternatives[result.alternative_index + 1].transcript

\* The distances between the normalized trigger and every window of
\* max(1, n-1) to n+1 consecutive words of the normalized transcript, n the
\* number of words of the trigger.
WindowDistances(trigger_phrase, transcript) ==
    LET normalized_trigger == NormalizeText(trigger_phrase)
        n == Len(SplitWords(normalized_trigger))
        words == SplitWords(NormalizeText(transcript))
    IN  { Levenshtein(normalized_trigger, WindowText(words, i, k)) :
            <<i, k>> \in { w \in (0..Len(words)) \X (Max2(1, n - 1)..(n + 1)) :
                              w[1] + w[2] <= Len(words) } }

\* C16: a returned match has a distance of at most the matcher's threshold,
\* and that distance is the least edit distance between the normalized
\* trigger and the word windows of the transcript the match came from.
C16_DistanceIsLeastWithinThreshold ==
    (matchInput.given /\ matchResult.matched) =>
        LET distances == WindowDistances(matchInput.trigger_phrase,
                             SourceTranscript(matchInput, matchResult))
        IN  /\ matchResult.distance <= fuzzy_matcher.threshold
            /\ matchResult.distance \in distances
            /\ \A d \in distances : matchResult.distance <= d

C16_Witness ==
    /\ matchInput.given
    /\ matchResult.matched
    /\ matchResult.distance > 0
    /\ matchResult.distance = fuzzy_matcher.threshold
    /\ matchResult.alternative_index > 0
    /\ Cardinality(WindowDistances(matchInput.trigger_phrase,
                       SourceTranscript(matchInput, matchResult))) > 1

\* The words of the normalized trigger are consecutive words of the
\* normalized transcript.
OccursAsWords(trigger_phrase, transcript) ==
    LET trigger_words == SplitWords(NormalizeText(trigger_phrase))
        words == SplitWords(NormalizeText(transcript))
        n == Len(trigger_words)
    IN  /\ n >= 1
        /\ \E i \in 0..(Len(words) - n) :
              SubSeq(words, i + 1, i + n) = trigger_words

\* C17: a trigger whose normalized words occur consecutively in the
\* normalized primary transcript is matched with distance 0 and alternative
\* index 0, whatever the matcher's threshold in 0..5; and without
\* alternatives there is no match when no word window of the primary
\* transcript is within the threshold.
C17_ExactOccurrenceMatchesElseNone ==
    matchInput.given =>
        /\ fuzzy_matcher.threshold \in 0..5
        /\ OccursAsWords(matchInput.trigger_phrase, matchInput.transcript)
              => /\ matchResult.matched
                 /\ matchResult.distance = 0
                 /\ matchResult.alternative_index = 0
        /\ ( /\ matchInput.alternatives = <<>>
             /\ \A d \in WindowDistances(matchInput.trigger_phrase,
                                         matchInput.transcript) :
                   d > fuzzy_matcher.threshold )
              => ~matchResult.matched

C17_Witness ==
    /\ matchInput.given
    /\ OccursAsWords(matchInput.trigger_phrase, matchInput.transcript)
    /\ matchInput.trigger_phrase # NormalizeText(matchInput.trigger_phrase)
    /\ matchInput.transcript # NormalizeText(matchInput.transcript)
    /\ matchInput.alternatives # <<>>
    /\ fuzzy_matcher.threshold = 0
    /\ matchResult.matched
    /\ matchResult.distance = 0

NoWords(text) == SplitWords(NormalizeText(text)) = <<>>

\* C18 as stated: there is no match when the trigger phrase or the
\* transcript is empty or normalizes to zero words, whatever the threshold
\* and the alternatives.
C18_NoMatchWithoutWords ==
    ( /\ matchInput.given
      /\ \/ NoWords(matchInput.trigger_phrase)
         \/ NoWords(matchInput.transcript) )
        => ~matchResult.matched

\* C18, amended: there is no match when the trigger phrase or the transcript
\* is empty or the trigger phrase normalizes to zero words, whatever the
\* threshold and the alternatives; a transcript that is not empty and
\* normalizes to zero words is not matched itself, and a match then comes
\* from an alternative with words.
C18_NoMatchWithoutTriggerWords ==
    matchInput.given =>
        /\ ( \/ matchInput.trigger_phrase = <<>>
             \/ matchInput.transcript = <<>>
             \/ NoWords(matchInput.trigger_phrase) )
              => ~matchResult.matched
        /\ ( NoWords(matchInput.transcript) /\ matchResult.matched )
              => /\ matchResult.alternative_index >= 1
                 /\ ~NoWords(SourceTranscript(matchInput, matchResult))

C18_Witness ==
    /\ matchInput.given
    /\ matchInput.trigger_phrase # <<>>
    /\ NoWords(matchInput.trigger_phrase)
    /\ ~NoWords(matchInput.transcript)
    /\ Len(matchInput.alternatives) > 1
    /\ fuzzy_matcher.threshold = 5
    /\ ~matchResult.matched

\* The integer the last config gave as fuzzy threshold
ConfiguredThreshold ==
    IntOf(AttrGet(attrs.listen_trigger_fuzzy_threshold,
                  Halves(DEFAULT_FUZZY_THRESHOLD)))

ThresholdOutOfRange ==
    /\ attrs.given
    /\ attrs.listen_trigger_fuzzy_threshold.has
    /\ \/ attrs.listen_trigger_fuzzy_threshold.value < Halves(0)
       \/ attrs.listen_trigger_fuzzy_threshold.value > Halves(5)

\* C20 as stated: after a config with a fuzzy threshold outside [0,5] the
\* threshold used for matching is the configured value clamped, 0 for a
\* value below 0 and 5 for a value above 5.
C20_OutOfRangeThresholdClamped ==
    (ThresholdOutOfRange /\ fuzzy_matcher.exists) =>
        fuzzy_matcher.threshold =
            IF attrs.listen_trigger_fuzzy_threshold.value < Halves(0)
            THEN 0 ELSE 5

\* The threshold in force after the last config: the integer part of the
\* configured number when that is in 0..5, else the default 2.
ThresholdInForce ==
    IF 0 <= ConfiguredThreshold /\ ConfiguredThreshold <= 5
    THEN ConfiguredThreshold ELSE 2

\* C20, amended: every config is accepted, whatever its fuzzy threshold; the
\* threshold the service keeps, and its matcher's, is the integer part of the
\* configured number when that lies in 0..5 and the default 2 otherwise; and
\* every match made afterwards is the match at that threshold.
C20_OutOfRangeThresholdDefaults ==
    /\ [](\A e \in FuzzyMatchingAttrs, t \in FuzzyThresholdAttrs :
             ENABLED Reconfigure(e, t))
    /\ [](attrs.given =>
             /\ service.configured
             /\ service.listen_trigger_fuzzy_threshold = ThresholdInForce
             /\ fuzzy_matcher.exists =>
                    fuzzy_matcher.threshold = ThresholdInForce)
    /\ [][<<matchInput, matchResult>>' # <<matchInput, matchResult>> =>
             matchResult' = MatchTrigger(ThresholdInForce,
                                         matchInput'.trigger_phrase,
                                         matchInput'.transcript,
                                         matchInput'.alternatives)]_vars

C20_Witness ==
    /\ ThresholdOutOfRange
    /\ ConfiguredThreshold > 5
    /\ fuzzy_matcher.exists
    /\ fuzzy_matcher.threshold = 2
    /\ reconfigLog = <<"Invalid fuzzy threshold", "Fuzzy matching enabled">>
    /\ matchInput.given
    /\ matchInput.transcript = No
    /\ ~matchResult.matched

\* A transcript on its own matches the trigger within the matcher's
\* threshold: the trigger has words and some word window is near enough.
MatchesAlone(trigger_phrase, transcript) ==
    /\ ~NoWords(trigger_phrase)
    /\ \E d \in WindowDistances(trigger_phrase, transcript) :
          d <= fuzzy_matcher.threshold

\* The 0-based indices of the entries of the alternatives that match alone
MatchingEntries(input) ==
    { k \in 0..(Len(input.alternatives) - 1) :
         MatchesAlone(input.trigger_phrase,
                      input.alternatives[k + 1].transcript) }

\* C21 as stated: given a primary transcript and a list of alternatives led
\* by it of which several match within the threshold, the match returned is
\* from the matching entry of the highest confidence.
C21_HighestConfidenceEntryWins ==
    ( /\ matchInput.given
      /\ matchInput.alternatives # <<>>
      /\ matchInput.alternatives[1].transcript = matchInput.transcript
      /\ Cardinality(MatchingEntries(matchInput)) >= 2 )
        => /\ matchResult.matched
           /\ matchResult.alternative_index \in MatchingEntries(matchInput)
           /\ \A k \in MatchingEntries(matchInput) :
                 matchInput.alternatives[k + 1].confidence
                    <= matchInput.alternatives[
                           matchResult.alternative_index + 1].confidence

WordChar(c) == c \notin WhiteSpace \cup Punctuation

\* The words of a text where they stand in it: the maximal runs of word
\* characters, as pairs of the 0-based position of the first character and
\* the position after the last, from left to right.
RECURSIVE WordRunsFrom(_, _)
WordRunsFrom(text, k) ==
    IF k >= Len(text) THEN <<>>
    ELSE IF ~WordChar(text[k + 1]) THEN WordRunsFrom(text, k + 1)
    ELSE LET ends == { e \in (k + 1)..Len(text) :
                          /\ \A j \in (k + 1)..e : WordChar(text[j])
                          /\ e = Len(text) \/ ~WordChar(text[e + 1]) }
             e == CHOOSE x \in ends : TRUE
         IN  <<<<k, e>>>> \o WordRunsFrom(text, e)

WordRuns(text) == WordRunsFrom(text, 0)

\* C23 as stated: a returned match has 0 <= match_start_pos <= match_end_pos
\* <= len(transcript); for a word window at the returned distance,
\* match_start_pos is where its first word starts in the original
\* transcript and match_end_pos where its last word ends, matched_phrase is
\* that slice of the original and command_text the original's text after it,
\* trimmed.
C23_SpanCoversWinningWords ==
    (matchInput.given /\ matchResult.matched) =>
        LET original == SourceTranscript(matchInput, matchResult)
            normalized_trigger == NormalizeText(matchInput.trigger_phrase)
            n == Len(SplitWords(normalized_trigger))
            words == SplitWords(NormalizeText(original))
            runs == WordRuns(original)
        IN  /\ 0 <= matchResult.match_start_pos
            /\ matchResult.match_start_pos <= matchResult.match_end_pos
            /\ matchResult.match_end_pos <= Len(original)
            /\ \E i \in 0..Len(words), k \in Max2(1, n - 1)..(n + 1) :
                  /\ i + k <= Len(words)
                  /\ Levenshtein(normalized_trigger, WindowText(words, i, k))
                        = matchResult.distance
                  /\ matchResult.match_start_pos = runs[i + 1][1]
                  /\ matchResult.match_end_pos = runs[i + k][2]
                  /\ matchResult.matched_phrase
                        = Slice(original, runs[i + 1][1], runs[i + k][2])
                  /\ matchResult.command_text
                        = StripText(Slice(original, runs[i + k][2],
                                          Len(original)))

\* -------------------------------------------- dispatcher properties

\* The one-shot arm of a category was set when the last callback began.
Armed(trigger_type) ==
    fired.trigger_active /\ fired.active_trigger_type = trigger_type

\* A category is active for the last transcript: continuous listening, or
\* its one-shot arm.
Active(trigger_type) == should_listen \/ Armed(trigger_type)

FuzzyMatches(trigger_type) ==
    MatchTrigger(fuzzy_matcher.threshold, TriggerPhrase(trigger_type),
                 fired.heard, fired.alternatives).matched

\* The last transcript matches the phrase of a category: fuzzily when fuzzy
\* matching is enabled, otherwise by the case-insensitive regex.
MatchesPhrase(trigger_type) ==
    IF FuzzyMatchingOn THEN FuzzyMatches(trigger_type)
    ELSE RegexSearch(TriggerPhrase(trigger_type), fired.heard)

Categories == {"say", "completion", "command"}

OrderOf(trigger_type) ==
    CHOOSE i \in 1..Len(TriggerTypes) : TriggerTypes[i] = trigger_type

ActiveMatching == { t \in Categories : Active(t) /\ MatchesPhrase(t) }

Passes(trigger_type) ==
    IF fired.path = "fuzzy"
    THEN Active(trigger_type) /\ FuzzyMatches(trigger_type)
    ELSE \/ should_listen
            /\ RegexSearch(TriggerPhrase(trigger_type), fired.heard)
         \/ Armed(trigger_type)

C26_UnmatchedTranscriptBecomesCommand ==
    ( /\ fired.called
      /\ should_listen
      /\ listen_trigger_all
      /\ ~fired.trigger_active
      /\ fired.heard # <<>>
      /\ \A t \in Categories :
            /\ ~MatchesPhrase(t)
            /\ ~RegexSearch(TriggerPhrase(t), fired.heard) )
        => /\ fired.category = "all"
           /\ fired.payload = fired.heard
           /\ listenerPc = "truncate" =>
                 /\ command_list # <<>>
                 /\ Head(command_list).text = fired.heard

\* ------------------------------------------ command list properties

\* C27: whenever an insertion into the command list is complete, the list
\* holds at most listen_command_buffer_length commands, the newest first;
\* every insertion puts its command at the front; and once more commands
\* than the capacity were inserted and none taken, the list holds exactly
\* the capacity most recently inserted ones.
C27_BoundedNewestFirst ==
    /\ [](listenerPc = "idle" =>
             /\ Len(command_list) <= listen_command_buffer_length
             /\ \A i, j \in 1..Len(command_list) :
                   i < j => command_list[i].id > command_list[j].id
             /\ (~lastGet.called /\ inserted > listen_command_buffer_length)
                   => CommandIds(command_list) =
                        (inserted - listen_command_buffer_length + 1)
                            ..inserted)
    /\ [][inserted' # inserted =>
             /\ command_list' # <<>>
             /\ Head(command_list').id = inserted'
             /\ Head(command_list').text = fired'.payload]_vars

\* Three commands went into a list of two, by a command match and by
\* listen_trigger_all, and none was taken.
C27_Witness ==
    /\ listenerPc = "idle"
    /\ ~lastGet.called
    /\ inserted > listen_command_buffer_length
    /\ Len(command_list) = listen_command_buffer_length
    /\ fired.category = "all"
    /\ \E i \in 1..Len(command_list) : command_list[i].text # No

\* A get_commands call has returned, the list held at least as many
\* commands as it asked for, and the listener thread changed the list
\* under no call so far.
TakenUndisturbed ==
    /\ lastGet.called
    /\ lastGet.done
    /\ ~lastGet.raced
    /\ Len(lastGet.before) >= lastGet.number

\* The n commands of a list inserted first, and those inserted last
OldestIds(list, n) ==
    { c \in CommandIds(list) :
        Cardinality({ d \in CommandIds(list) : d < c }) < n }

NewestIds(list, n) ==
    { c \in CommandIds(list) :
        Cardinality({ d \in CommandIds(list) : d > c }) < n }

\* C28, as stated: get_commands(n) on a list of at least n commands
\* returns the n oldest-inserted of them, removes exactly those, and no
\* later call returns any of them again.
C28_TakesOldest ==
    TakenUndisturbed =>
        /\ CommandIds(lastGet.returned)
              = OldestIds(lastGet.before, lastGet.number)
        /\ lastGet.removed = lastGet.returned
        /\ ~lastGet.again

\* C28, amended: get_commands(n) on a list of at least n commands returns
\* its first n entries, which are the n most recently inserted of the
\* retained commands, newest first; it removes exactly those, and no later
\* call returns any of them again.
C28_TakesNewest ==
    /\ TakenUndisturbed =>
          /\ lastGet.returned
                = SubSeq(lastGet.before, 1, lastGet.number)
          /\ CommandIds(lastGet.returned)
                = NewestIds(lastGet.before, lastGet.number)
          /\ lastGet.removed = lastGet.returned
          /\ ~lastGet.again
    /\ (getPc = "idle" /\ ~lastGet.raced) =>
          returned \cap CommandIds(command_list) = {}

\* One command was taken from a list of two: the one inserted last.
C28_Witness ==
    /\ TakenUndisturbed
    /\ lastGet.number = 1
    /\ Len(lastGet.before) = 2
    /\ lastGet.returned = <<lastGet.before[1]>>
    /\ lastGet.before[1].id > lastGet.before[2].id

\* C29: under every interleaving of get_commands with the insertions of
\* the listener thread, the commands a get_commands call removes are
\* exactly the commands it returns, and no command is returned by two
\* calls.
C29_TakeAtomicWithInsert ==
    (lastGet.called /\ lastGet.done) =>
        /\ lastGet.removed = lastGet.returned
        /\ ~lastGet.again

\* ------------------------------------------------ one-shot properties

\* C30: with continuous listening off, a transcript fires only the category
\* whose one-shot arm is set; the transcript that fires it clears the arm;
\* with the arm clear no transcript fires any category or is taken as a
\* command; and the arm is set by listen_trigger alone.
C30_ArmConsumedByOneTranscript ==
    [][/\ (~should_listen /\ fired' # fired /\ fired'.called) =>
             /\ fired'.category # "none" =>
                   /\ trigger_active
                   /\ fired'.category = active_trigger_type
                   /\ ~trigger_active'
             /\ ~trigger_active =>
                   /\ fired'.category = "none"
                   /\ command_list' = command_list
       /\ (~trigger_active /\ trigger_active') =>
             \E type \in Categories : ListenTrigger(type)]_vars

\* Continuous listening off: a transcript fired the armed category say, and
\* the arm is clear.
C30_Witness ==
    /\ ~should_listen
    /\ fired.called
    /\ fired.category = "say"
    /\ Armed("say")
    /\ ~trigger_active

\* ---------------------------------------------------- closer properties

\* C31, as stated: the closer of background listening is called for a
\* transcript only when continuous listening is off and a trigger fired for
\* that transcript, on the fuzzy path and on the regex path.
C31_CloserOnlyAfterTrigger ==
    (fired.called /\ fired.closed) =>
        /\ ~should_listen
        /\ fired.category # "none"

\* C31, amended: the closer is called for a transcript only when continuous
\* listening is off.  On the fuzzy path it is called only when a trigger
\* fired, and a transcript that fired nothing never stops background
\* listening.  On the regex path only listen_callback calls it, and it does
\* so for every transcript that is not empty, whether a trigger fired or
\* not.
C31_CloserOnlyWhenNotListening ==
    fired.called =>
        /\ fired.closed =>
              /\ ~should_listen
              /\ fired.heard # <<>>
              /\ fired.path = "fuzzy" => fired.category # "none"
              /\ fired.path = "regex" => fired.callback = "listen_callback"
        /\ ( /\ fired.path = "regex"
             /\ fired.callback = "listen_callback"
             /\ ~should_listen
             /\ fired.heard # <<>> ) => fired.closed

\* Continuous listening off: the armed category fired on the fuzzy path and
\* the closer was called.
C31_Witness ==
    /\ fired.called
    /\ ~should_listen
    /\ fired.path = "fuzzy"
    /\ fired.category # "none"
    /\ fired.closed

\* ------------------------------------------------ segmenter properties

\* The chunk the detect loop takes next from the stream, and the time of the
\* last speech once that chunk is taken.
NextChunk == StreamChunk(stream, pos + 1)

LastSpeechWith(chunk) ==
    IF StreamVerdict(stream, pos + 1) THEN chunk.timestamp
    ELSE seg.last_speech_time

\* Whether the utterance in progress is due once the chunk is taken.
Due(chunk) ==
    \/ chunk.timestamp - LastSpeechWith(chunk) >= SILENCE_TIMEOUT
    \/ chunk.timestamp - seg.speech_start_time >= MAX_SPEECH_DURATION

\* C32: a step taken in state speaking appends the chunk; it emits the
\* utterance, the chunk included, and goes to idle exactly when the chunk's
\* timestamp is at least the silence timeout after the last speech or at least
\* the maximum duration after the speech start; right after an emission the
\* chunk list and the padding buffer are empty; on any other step the state
\* stays speaking and the chunk is kept at the end of the chunk list.
C32_EmitsIffDue ==
    [][ (seg.state = "speaking" /\ pos < StreamLen(stream)) =>
          /\ Due(NextChunk) <=> Len(emitLog') = Len(emitLog) + 1
          /\ Due(NextChunk) =>
                /\ Last(emitLog').utt.chunks =
                       Append(seg.utterance_chunks, NextChunk)
                /\ seg'.state = "idle"
                /\ seg'.utterance_chunks = <<>>
                /\ seg'.padding_buffer = <<>>
          /\ ~Due(NextChunk) =>
                /\ emitLog' = emitLog
                /\ seg'.state = "speaking"
                /\ seg'.utterance_chunks =
                       Append(seg.utterance_chunks, NextChunk) ]_vars

\* Speech that went on to the maximum duration was emitted at a speech chunk,
\* and the segmenter is idle with nothing kept.
C32_Witness ==
    /\ pos >= 1
    /\ emitLog # <<>>
    /\ Last(emitLog).utt.end_time = StreamChunk(stream, pos).timestamp
    /\ StreamVerdict(stream, pos)
    /\ Last(emitLog).utt.end_time - Last(emitLog).utt.start_time
           >= MAX_SPEECH_DURATION
    /\ seg.state = "idle"
    /\ seg.utterance_chunks = <<>>
    /\ seg.padding_buffer = <<>>

\* The timestamp of the k-th chunk of the audio, and the chunk.
RECURSIVE DeviceTime(_)
DeviceTime(k) == IF k = 0 THEN 0 ELSE DeviceTime(k - 1) + device[k][1]

DeviceChunk(k) == AudioChunk(DeviceTime(k), device[k][2])

\* The chunks from the i-th to the j-th, in arrival order.
DeviceChunks(i, j) == [n \in 1..(j - i + 1) |-> DeviceChunk(i + n - 1)]

\* The position of the chunk the last utterance was emitted at; 0 before the
\* first emission.
LastEmitPos ==
    IF emitLog = <<>> THEN 0
    ELSE CHOOSE k \in 1..pos : DeviceTime(k) = Last(emitLog).utt.end_time

\* Whether the VAD called the k-th chunk speech, as the segmenter shows it
\* right after the chunk: the last speech time is the chunk's timestamp.
\* (No chunk has timestamp -1, the value before the first speech.)
CalledSpeech(s, k) == s.last_speech_time = DeviceTime(k)

\* C33: the padding buffer never holds more than SPEECH_PADDING /
\* FRAME_DURATION_MS = 10 chunks, and on every step from idle to speaking the
\* utterance's chunk list is the padding buffer's content: the last chunks, at
\* most 10, received since the last emission (since the start before the
\* first), in arrival order, ending with the chunk the VAD called speech.
C33_UtteranceStartsAsPadding ==
    [][ /\ Len(seg'.padding_buffer) <= SPEECH_PADDING \div FRAME_DURATION_MS
        /\ (seg.state = "idle" /\ seg'.state = "speaking") =>
              LET since == pos' - LastEmitPos
                  kept == IF since <= 10 THEN since ELSE 10
              IN  /\ seg'.utterance_chunks = seg'.padding_buffer
                  /\ seg'.utterance_chunks =
                         DeviceChunks(pos' - kept + 1, pos')
                  /\ CalledSpeech(seg', pos')
                  /\ Last(seg'.utterance_chunks) = DeviceChunk(pos') ]_vars

\* After an emission more than 10 chunks came in state idle, the last of them
\* speech: the new utterance starts with the last 10.
C33_Witness ==
    /\ emitLog # <<>>
    /\ seg.state = "speaking"
    /\ pos - LastEmitPos > 10
    /\ Len(seg.utterance_chunks) = 10
    /\ seg.utterance_chunks = seg.padding_buffer
    /\ Last(seg.utterance_chunks) = DeviceChunk(pos)

\* ------------------------------------------------------ VAD properties

\* C34: the VAD (dynamic mode) counts its first 50 process() calls and
\* never counts past 50; in each of them the chunk is speech exactly when its
\* energy is above max(static threshold, 1.5 * ambient), the ambient estimate
\* being the one that call has just updated; from the 51st call on the chunk
\* is speech exactly when its energy is above the static threshold, and the
\* call leaves the ambient estimate and the counter as they were.  (pos is the
\* number of process() calls made so far.)
C34_CalibratesFor50Calls ==
    [][ LET energy == device[pos + 1][2]
        IN  /\ vad.samples_seen <= 50 /\ vad'.samples_seen <= 50
            /\ pos < 50 =>
                  /\ vad'.samples_seen = vad.samples_seen + 1
                  /\ vad'.samples_seen = pos'
                  /\ CalledSpeech(seg', pos') <=>
                         2 * energy > Max2(2 * VAD_THRESHOLD, 3 * vad'.ambient)
            /\ pos >= 50 =>
                  /\ vad' = vad
                  /\ CalledSpeech(seg', pos') <=> energy > VAD_THRESHOLD
      ]_vars

\* After the 50th call a chunk of steady noise was called speech, which the
\* ambient estimate, still what the calibration left, would have ruled out.
C34_Witness ==
    /\ pos > 50
    /\ vad.samples_seen = 50
    /\ device[pos][2] = NOISY
    /\ 2 * NOISY <= 3 * vad.ambient
    /\ CalledSpeech(seg, pos)

\* What process() alone leaves of the VAD's state after a chunk of the given
\* energy, written out from energy_vad.py:45-51.
AfterProcessOnly(energy) ==
    IF vad.samples_seen < 50
    THEN [ambient |-> IF vad.calibrated
                      THEN (9 * vad.ambient + energy) \div 10 ELSE energy,
          calibrated |-> TRUE,
          samples_seen |-> vad.samples_seen + 1]
    ELSE vad

\* C35: the reset() the segmenter calls at every emission changes nothing of
\* the VAD: after a step that emits, the ambient estimate and the calibration
\* counter are what process() left for the emitting chunk; so the counter is
\* never restarted: after n chunks it is n, or 50 once n has passed 50.
C35_ResetKeepsCalibration ==
    [][ /\ Len(emitLog') = Len(emitLog) + 1 =>
              vad' = AfterProcessOnly(device[pos + 1][2])
        /\ vad'.calibrated
        /\ vad'.samples_seen = IF pos' <= 50 THEN pos' ELSE 50 ]_vars

\* An utterance was just emitted before the calibration ended, and the
\* estimate and the count are kept.
C35_Witness ==
    /\ emitLog # <<>>
    /\ pos = LastEmitPos
    /\ pos < 50
    /\ vad.samples_seen = pos
    /\ vad.ambient > 0

\* ------------------------------------------------ window tie properties

\* The windows <<start word index, number of words>> of the transcript's
\* normalized words that the matcher scans, and those among them at the least
\* distance from the normalized trigger.
ScannedWindows(trigger_phrase, transcript) ==
    LET n == Len(SplitWords(NormalizeText(trigger_phrase)))
        words == SplitWords(NormalizeText(transcript))
    IN  { w \in (0..Len(words)) \X (Max2(1, n - 1)..(n + 1)) :
            w[1] + w[2] <= Len(words) }

WindowDistance(trigger_phrase, transcript, w) ==
    Levenshtein(NormalizeText(trigger_phrase),
                WindowText(SplitWords(NormalizeText(transcript)), w[1], w[2]))

NearestWindows(trigger_phrase, transcript) ==
    LET scanned == ScannedWindows(trigger_phrase, transcript)
    IN  { w \in scanned :
            \A v \in scanned :
                WindowDistance(trigger_phrase, transcript, w)
                    <= WindowDistance(trigger_phrase, transcript, v) }

\* The leftmost window of a set, the one of fewest words among those of the
\* same start; and the window of fewest words, the leftmost among those of
\* the same number of words.
LeftmostThenFewest(windows) ==
    CHOOSE w \in windows :
        \A v \in windows : w[1] < v[1] \/ (w[1] = v[1] /\ w[2] <= v[2])

FewestThenLeftmost(windows) ==
    CHOOSE w \in windows :
        \A v \in windows : w[2] < v[2] \/ (w[2] = v[2] /\ w[1] <= v[1])

\* A transcript that is its own normalized form, its words once each: a
\* window's words then stand in the transcript where the window says.
PlainTranscript(transcript) ==
    LET words == SplitWords(transcript)
    IN  /\ NormalizeText(transcript) = transcript
        /\ JoinWords(words) = transcript
        /\ \A i, j \in 1..Len(words) : words[i] = words[j] => i = j

\* Whether the match returned is the window w of the transcript.
ReturnsWindow(transcript, w) ==
    LET words == SplitWords(transcript)
        start == IF w[1] = 0 THEN 0
                 ELSE Len(JoinWords(SubSeq(words, 1, w[1]))) + 1
    IN  /\ matchResult.matched_phrase = WindowText(words, w[1], w[2])
        /\ matchResult.match_start_pos = start
        /\ matchResult.match_end_pos =
               start + Len(WindowText(words, w[1], w[2]))

\* The precondition of C36: a match was returned from a plain transcript.
MatchedPlain ==
    /\ matchInput.given
    /\ matchResult.matched
    /\ PlainTranscript(SourceTranscript(matchInput, matchResult))

\* C36, as stated: of the windows at the least distance the match returned is
\* the leftmost, and among those of the same start the one of fewest words.
C36_LeftmostWindowWins ==
    MatchedPlain =>
        LET transcript == SourceTranscript(matchInput, matchResult)
        IN  ReturnsWindow(transcript, LeftmostThenFewest(
                NearestWindows(matchInput.trigger_phrase, transcript)))

\* C36, amended: of the windows at the least distance the match returned is
\* the one of fewest words, and among those of the same number of words the
\* leftmost.
C36_FewestWordsWindowWins ==
    MatchedPlain =>
        LET transcript == SourceTranscript(matchInput, matchResult)
        IN  ReturnsWindow(transcript, FewestThenLeftmost(
                NearestWindows(matchInput.trigger_phrase, transcript)))

\* A match from a transcript in which a window of fewer words further right
\* is as near as the leftmost one: "i bot" is returned from "h i bot".
C36_Witness ==
    /\ MatchedPlain
    /\ LET transcript == SourceTranscript(matchInput, matchResult)
           nearest == NearestWindows(matchInput.trigger_phrase, transcript)
       IN  /\ LeftmostThenFewest(nearest) # FewestThenLeftmost(nearest)
           /\ ReturnsWindow(transcript, FewestThenLeftmost(nearest))
           /\ matchResult.match_start_pos > 0

\* ------------------------------------------------ alternatives properties

\* The entries of the alternatives other than the primary, by their position
\* in the list (0-based; the primary is entry 0).
OtherEntries(input) == 1..(Len(input.alternatives) - 1)

\* Entry j comes before entry k in descending confidence order; entries of
\* equal confidence in the order of the list.
RanksBefore(input, j, k) ==
    LET cj == input.alternatives[j + 1].confidence
        ck == input.alternatives[k + 1].confidence
    IN  cj > ck \/ (cj = ck /\ j < k)

\* An entry with non-empty text and confidence >= 0.5 (50 hundredths).
EligibleEntry(input, k) ==
    /\ input.alternatives[k + 1].transcript # <<>>
    /\ input.alternatives[k + 1].confidence >= 50

\* The 4 highest-confidence eligible entries.
TopEligible(input) ==
    { k \in OtherEntries(input) :
        /\ EligibleEntry(input, k)
        /\ Cardinality({ j \in OtherEntries(input) :
                           /\ EligibleEntry(input, j)
                           /\ RanksBefore(input, j, k) }) < 4 }

\* The eligible entries among the 4 highest-confidence entries.
EligibleOfTop(input) ==
    { k \in OtherEntries(input) :
        /\ EligibleEntry(input, k)
        /\ Cardinality({ j \in OtherEntries(input) :
                           RanksBefore(input, j, k) }) < 4 }

\* The primary transcript was tried and did not match.
PrimaryTriedInVain ==
    /\ matchInput.given
    /\ matchInput.trigger_phrase # <<>>
    /\ matchInput.transcript # <<>>
    /\ ~MatchesAlone(matchInput.trigger_phrase, matchInput.transcript)

\* The result is the match of the first, in descending confidence order, of
\* the given entries that matches within the threshold, with that entry's
\* position in the list and its confidence; no match if none of them matches.
FirstMatchOf(entries) ==
    LET matching ==
            { k \in entries :
                MatchesAlone(matchInput.trigger_phrase,
                             matchInput.alternatives[k + 1].transcript) }
        idx == matchResult.alternative_index
    IN  IF matching = {} THEN ~matchResult.matched
        ELSE /\ matchResult.matched
             /\ idx \in matching
             /\ \A j \in matching : j = idx \/ RanksBefore(matchInput, idx, j)
             /\ matchResult.confidence =
                    matchInput.alternatives[idx + 1].confidence
             /\ matchResult = MatchSingleTranscript(fuzzy_matcher.threshold,
                    NormalizeText(matchInput.trigger_phrase),
                    matchInput.alternatives[idx + 1].transcript,
                    matchInput.alternatives[idx + 1].confidence, idx)

\* C37, as stated: when the primary transcript does not match, the entries
\* tried are the 4 highest-confidence entries with non-empty text and
\* confidence >= 0.5, fewer if there are fewer, in descending confidence
\* order, and the first of them that matches is returned with its position in
\* the list.
C37_TopEligibleTried ==
    PrimaryTriedInVain => FirstMatchOf(TopEligible(matchInput))

\* C37, amended: the entries tried are the eligible ones among the 4
\* highest-confidence entries other than the primary, of which an entry
\* without text is one when its confidence puts it there.
C37_EligibleOfTopTried ==
    PrimaryTriedInVain => FirstMatchOf(EligibleOfTop(matchInput))

\* The match came from an entry later in the list than a matching entry of
\* lower confidence, and an entry without text ranks before both.
C37_Witness ==
    /\ PrimaryTriedInVain
    /\ matchResult.matched
    /\ LET idx == matchResult.alternative_index
       IN  /\ idx >= 2
           /\ \E j \in OtherEntries(matchInput) :
                 /\ j < idx
                 /\ RanksBefore(matchInput, idx, j)
                 /\ MatchesAlone(matchInput.trigger_phrase,
                                 matchInput.alternatives[j + 1].transcript)
           /\ \E j \in OtherEntries(matchInput) :
                 /\ RanksBefore(matchInput, j, idx)
                 /\ matchInput.alternatives[j + 1].transcript = <<>>

\* ------------------------------------------------ restart properties

\* C38, as claimed: while the pipeline is running, after a second start() as
\* after the first, the detect and the transcribe thread are in their loops:
\* neither has ended on a pill that an earlier stop() left in its queue.
C38_RestartedStagesKeepRunning ==
    running => (detPc # "done" /\ trPc # "done")

\* ------------------------------------------------ metrics properties

\* The utterances the transcription thread has finished, by the metrics.
Finished == metrics.utterances_transcribed + metrics.transcription_errors

\* C39, as stated: while the pipeline runs and no call the transcription
\* thread made has raised, the metrics never show more utterances finished
\* than detected.
C39_FinishedWithinDetected ==
    (running /\ onErrorCalls.transcribe = 0) =>
        Finished <= metrics.utterances_detected

\* C39, amended: the metrics never show more utterances finished than
\* detected, but for the utterance that the detect thread has put in the
\* queue and not yet counted: between its put_nowait and its increment of
\* utterances_detected the finished ones may be one more than the detected.
C39_FinishedWithinDetectedOrQueued ==
    /\ Finished <= metrics.utterances_detected
                      + (IF detPc = "count" THEN 1 ELSE 0)
    /\ detPc = "count" => detUtt # NoUtterance

\* The transcription thread has transcribed an utterance that the detect
\* thread has queued and not yet counted, no call having raised.
C39_Witness ==
    /\ running
    /\ onErrorCalls.transcribe = 0
    /\ detPc = "count"
    /\ metrics.utterances_transcribed = metrics.utterances_detected + 1
    /\ metrics.transcription_errors = 0

\* ------------------------------------------------ arm properties

\* C40, as claimed: with continuous listening on and the one-shot arm of a
\* category set, a transcript that fires another category leaves the arm
\* set, for the same category; the arm is cleared only by a transcript that
\* fires its category, or by reconfigure.
C40_OtherCategoryKeepsArm ==
    [][(should_listen /\ trigger_active /\ fired' # fired /\ fired'.called) =>
          /\ fired'.category \notin {"none", active_trigger_type} =>
                /\ trigger_active'
                /\ active_trigger_type' = active_trigger_type
          /\ ~trigger_active' => fired'.category = active_trigger_type]_vars
====
